---- MODULE Spec2Model ----
(***************************************************************************)
(* Model of the proxy / changeset engine of mixer:                         *)
(*   mixer/blender_data/bpy_data_proxy.py  (BpyDataProxy, ordering keys)   *)
(* Every peer owns a live store (bpy.data) and one BpyDataProxy session.   *)
(* The identifier of a datablock doubles as its mixer_uuid.                *)
(***************************************************************************)
EXTENDS Integers, Sequences, FiniteSets, TLC

VARIABLES
    bpy_data,    \* [Peers -> [Datablocks -> live datablock record]] : the live store of each peer
    state,       \* [Peers -> ProxyState record]   : BpyDataProxy.state (proxies, datablocks, objects)
    delayed,     \* [Peers -> SUBSET Datablocks]   : BpyDataProxy._delayed_updates
    changeset,   \* what the last update() call returned (NoChangeset before the first call)
    call,        \* record describing the last operation (its inputs and what it visited)
    cast,        \* the datablocks that may exist in this behaviour
    edits,       \* number of user edits so far
    cycles,      \* number of BpyDataProxy calls so far, where a specification bounds them
    network      \* the rename commands in flight between the peers

vars == <<bpy_data, state, delayed, changeset, call, cast, edits, cycles, network>>

None == "None"

----------------------------------------------------------------------------
(* Bounds *)

MaxEdits == 2
MaxCycles == 2

Peers == {1, 2, 3}

Datablocks == {"o1", "o2", "m1", "c1", "k1", "s1", "e1", "w1"}

\* The scenes explored: each behaviour works on one of these small sets of datablocks
Casts ==
    { {"o1", "m1"}, {"c1", "o1"}, {"o1", "o2"}, {"k1", "m1"}, {"k1", "o1"}, {"s1", "m1"},
      {"m1", "e1"}, {"m1", "w1"} }

Names == {"A", "B"}
\* the name under which the user creates a datablock
DefaultName == "A"

----------------------------------------------------------------------------
(* Static description of the datablocks *)

TypeOf(d) ==
    CASE d \in {"o1", "o2"} -> "Object"
      [] d = "m1" -> "Mesh"
      [] d = "c1" -> "Collection"
      [] d = "k1" -> "Key"
      [] d = "s1" -> "Scene"
      [] d = "e1" -> "NodeTree"
      [] d = "w1" -> "WindowManager"
      [] d = "t1" -> "Material"

\* bpy.data bucket of a standalone datablock; embedded and untracked datablocks are in none
collection_name(d) ==
    CASE d \in {"o1", "o2"} -> "objects"
      [] d = "m1" -> "meshes"
      [] d = "c1" -> "collections"
      [] d = "k1" -> "shape_keys"
      [] d = "s1" -> "scenes"
      [] d = "t1" -> "materials"
      [] OTHER -> None

is_embedded_data(d) == d = "e1"

mixer_uuid(d) == d

\* types whose depsgraph updates are tracked
safe_depsgraph_updates == {"Object", "Mesh", "Collection", "Key", "Scene", "NodeTree", "Material"}

\* what a datablock may reference: Object.data, Collection.objects member, Key.user
RefTargets(d) ==
    CASE d \in {"o1", "o2"} -> {"m1"}
      [] d = "c1" -> {"o1"}
      [] d = "k1" -> {"m1"}
      [] OTHER -> {}

----------------------------------------------------------------------------
(* Ordering keys *)

sys_maxsize == 2147483647

creation_order(name) ==
    CASE name = "collections" -> 10
      [] name = "scenes" -> 20
      [] name = "objects" -> 30
      [] name = "shape_keys" -> 40
      [] OTHER -> 0

\* a predicate that ignores the creation order of the buckets
creation_order_predicate_unsorted(item) == 0

\* item is <<bpy.data collection name, delta>>
creation_order_predicate(item) == creation_order(item[1])

updates_order_get(type, default) ==
    CASE type = "Key" -> 5
      [] type = "Mesh" -> 10
      [] OTHER -> default

\* a predicate that ignores the type of the datablock
updates_order_predicate_unsorted(datablock) == 0

updates_order_predicate(datablock) == updates_order_get(TypeOf(datablock), sys_maxsize)

removal_order_get(type, default) ==
    CASE type = "Object" -> 10
      [] OTHER -> default

\* removal is <<uuid, type tag>>; the lookup is made in _updates_order
remove_order_predicate(removal) == updates_order_get(removal[2], sys_maxsize)

\* sorted(seq, key=...): stable; key[i] is the key of seq[i]
sorted(seq, key) ==
    LET n == Len(seq)
        rank(i) == 1 + Cardinality({j \in 1..n :
                        \/ key[j] < key[i]
                        \/ (key[j] = key[i] /\ j < i)})
    IN [k \in 1..n |-> seq[CHOOSE i \in 1..n : rank(i) = k]]

----------------------------------------------------------------------------
(* Small helpers on dictionaries and sets *)

EmptyDict == [k \in {} |-> None]
Put(f, k, v) == [x \in (DOMAIN f) \cup {k} |-> IF x = k THEN v ELSE f[x]]
Del(f, k) == [x \in (DOMAIN f) \ {k} |-> f[x]]

Reverse(seq) == [i \in 1..Len(seq) |-> seq[Len(seq) + 1 - i]]
Range(seq) == {seq[i] : i \in 1..Len(seq)}

\* the elements of set S in the order in which they come in the sequence order
SeqOf(S, order) == SelectSeq(order, LAMBDA x : x \in S)

\* iteration orders of sets and dictionaries: an order and its reverse
Order1 == <<"o1", "o2", "m1", "c1", "k1", "s1", "e1", "w1", "t1">>
Orders(scene) == {SeqOf(scene, Order1), Reverse(SeqOf(scene, Order1))}

\* the order of the buckets in diff.collection_deltas: that of their first datablock
BucketOrder(order) ==
    LET names == [i \in 1..Len(order) |-> collection_name(order[i])]
    IN SelectSeq([i \in 1..Len(names) |->
                    IF \E j \in 1..(i - 1) : names[j] = names[i] THEN None ELSE names[i]],
                 LAMBDA b : b # None)

----------------------------------------------------------------------------
(* The live store *)

NeverLived == [status |-> "never", name |-> None, attr |-> 0, ref |-> None]
Removed == [status |-> "removed", name |-> None, attr |-> 0, ref |-> None]

\* the live store of a scene: one record for each datablock of the cast
EmptyStore(scene) == [d \in scene |-> NeverLived]

IsLive(store, d) == d \in DOMAIN store /\ store[d].status = "live"

\* the names carried by the live datablocks of the bucket of d, d excepted
NamesTaken(store, d) ==
    {store[x].name : x \in {y \in (DOMAIN store) \ {d} :
                               IsLive(store, y) /\ collection_name(y) = collection_name(d)}}

\* the live store keeps names unique in a bucket: a name that is taken gets a numeric suffix
RECURSIVE unique_name(_, _)
unique_name(name, taken) ==
    IF name \notin taken THEN name ELSE unique_name(name \o ".001", taken)

\* datablock.name = name
set_name(store, d, name) ==
    [store EXCEPT ![d].name = unique_name(name, NamesTaken(store, d))]

\* bpy.data.<bucket>.new(name, ...)
new_datablock(store, d, name, ref) ==
    [store EXCEPT ![d] = [status |-> "live",
                          name |-> unique_name(name, NamesTaken(store, d)),
                          attr |-> 0,
                          ref |-> ref]]

\* bpy.data.<bucket>.remove(datablock): removing the data of an Object removes the Object
\* as well; a reference held by anything else is reset
delete_datablock(store, d) ==
    [x \in DOMAIN store |->
        IF x = d THEN Removed
        ELSE IF store[x].ref = d
             THEN IF TypeOf(x) = "Object" THEN Removed ELSE [store[x] EXCEPT !.ref = None]
             ELSE store[x]]

----------------------------------------------------------------------------
(* RecursionGuard and the attribute graphs that a traversal walks *)

MAX_DEPTH == 30

\* ".".join(property_stack)
RECURSIVE join(_)
join(property_stack) ==
    IF property_stack = <<>> THEN ""
    ELSE IF Len(property_stack) = 1 THEN property_stack[1]
    ELSE property_stack[1] \o "." \o join(Tail(property_stack))

\* a guard that gives up one level early
push_raises_early(property_stack, name) ==
    LET pushed == Append(property_stack, name)
    IN [property_stack |-> pushed,
        raised |-> Len(pushed) >= MAX_DEPTH,
        property_path |-> IF Len(pushed) >= MAX_DEPTH THEN join(pushed) ELSE ""]

\* a guard that takes the offending name off the stack before it raises
push_restores_stack(property_stack, name) ==
    LET pushed == Append(property_stack, name)
    IN [property_stack |-> IF Len(pushed) > MAX_DEPTH THEN property_stack ELSE pushed,
        raised |-> Len(pushed) > MAX_DEPTH,
        property_path |-> IF Len(pushed) > MAX_DEPTH THEN join(pushed) ELSE ""]

\* RecursionGuard.push(name): appends, then raises MaxDepthExceeded(property_path) when the
\* stack is deeper than MAX_DEPTH
push(property_stack, name) ==
    LET pushed == Append(property_stack, name)
    IN [property_stack |-> pushed,
        raised |-> Len(pushed) > MAX_DEPTH,
        property_path |-> IF Len(pushed) > MAX_DEPTH THEN join(pushed) ELSE ""]

\* RecursionGuard.pop()
pop(property_stack) == SubSeq(property_stack, 1, Len(property_stack) - 1)

\* The attribute graphs traversed: chains of nested attributes whose depth lies around
\* MAX_DEPTH, and graphs with a cycle (depth = Cyclic), whose attribute names repeat with a
\* period
MaxPeriod == 2
MaxBeyond == 2
Cyclic == 0 - 1
AttributeNames == <<"a", "b", "c", "d">>
Graphs ==
    [period : 1 .. MaxPeriod,
     depth : {Cyclic} \cup ((MAX_DEPTH - 2) .. (MAX_DEPTH + MaxBeyond))]

\* the name of the attribute met at a level of the graph
attribute_name(graph, level) ==
    AttributeNames[(((level - 1) % graph.period) % Len(AttributeNames)) + 1]

\* whether the graph has an attribute at this level
has_attribute(graph, level) == graph.depth = Cyclic \/ level <= graph.depth

\* the nesting of a datablock whose attribute graph was deepened beyond what the guard allows
Deepened == MAX_DEPTH + 1

\* the attribute graph under a live datablock: one level, unless it was deepened
attribute_graph(rec) ==
    [period |-> 1, depth |-> IF rec.attr = Deepened THEN Deepened ELSE 1]

\* the descent of diff through the attributes of a datablock, each level entered with a
\* push: TRUE when a push raises MaxDepthExceeded
RECURSIVE traversal_raises(_, _)
traversal_raises(graph, property_stack) ==
    IF ~has_attribute(graph, Len(property_stack) + 1) THEN FALSE
    ELSE LET r == push(property_stack, attribute_name(graph, Len(property_stack) + 1))
         IN r.raised \/ traversal_raises(graph, r.property_stack)

----------------------------------------------------------------------------
(* Proxies and deltas *)

EmptyState == [proxies |-> EmptyDict, datablocks |-> EmptyDict, objects |-> EmptyDict]

\* DatablockProxy built from a live datablock
load(d, rec) ==
    [mixer_uuid |-> mixer_uuid(d), collection_name |-> collection_name(d), type |-> TypeOf(d),
     name |-> rec.name, attr |-> rec.attr, ref |-> rec.ref]

\* the attributes that differ between the proxy and the live datablock
changed_attributes(proxy, rec) ==
    {a \in {"attr", "ref"} : proxy[a] # rec[a]}

\* DatablockProxy.diff: a DeltaUpdate holding the changed attributes. The result None
\* (nothing differs) is the delta whose set of changed attributes is empty
diff(proxy, rec) ==
    [mixer_uuid |-> proxy.mixer_uuid, collection_name |-> proxy.collection_name,
     changed |-> changed_attributes(proxy, rec), attr |-> rec.attr, ref |-> rec.ref]

\* DatablockProxy.apply_to_proxy
apply_to_proxy(proxy, delta) ==
    [proxy EXCEPT !.attr = IF "attr" \in delta.changed THEN delta.attr ELSE @,
                  !.ref = IF "ref" \in delta.changed THEN delta.ref ELSE @]

\* an index that lists the data under the Object
objects_add_by_object(objects, data_uuid, uuid) ==
    Put(objects, uuid,
        (IF uuid \in DOMAIN objects THEN objects[uuid] ELSE {}) \cup {data_uuid})

\* ProxyState.objects[data_uuid].add(uuid), objects being a defaultdict(set)
objects_add(objects, data_uuid, uuid) ==
    Put(objects, data_uuid,
        (IF data_uuid \in DOMAIN objects THEN objects[data_uuid] ELSE {}) \cup {uuid})

----------------------------------------------------------------------------
(* BpyBlendDiff: the collection delta of one bucket *)

items_added(self, store, bucket) ==
    {d \in DOMAIN store : /\ IsLive(store, d)
                          /\ collection_name(d) = bucket
                        /\ mixer_uuid(d) \notin DOMAIN self.proxies}

items_removed(self, store, bucket) ==
    {u \in DOMAIN self.proxies : /\ self.proxies[u].collection_name = bucket
                                 /\ ~IsLive(store, self.datablocks[u])}

items_renamed(self, store, bucket) ==
    {u \in DOMAIN self.proxies : /\ self.proxies[u].collection_name = bucket
                                 /\ IsLive(store, self.datablocks[u])
                                 /\ self.proxies[u].name # store[self.datablocks[u]].name}

\* diff.collection_deltas in the order in which the buckets are visited: a list of
\* <<bucket name, delta>>; the delta of a bucket is given by items_added, items_removed and
\* items_renamed of that bucket, so the bucket name stands for it
collection_deltas(bucketOrder) == [i \in 1..Len(bucketOrder) |-> <<bucketOrder[i], bucketOrder[i]>>]

\* DatablockCollectionProxy.update(delta, context): registers the proxies of the added
\* datablocks, drops those of the removed ones, renames the renamed ones
DatablockCollectionProxy_update(self, store, bucket, order) ==
    LET AddedSet == items_added(self, store, bucket)
        RemovedSet == items_removed(self, store, bucket)
        RenamedSet == items_renamed(self, store, bucket)
        added == SeqOf(AddedSet, order)
        removed == SeqOf(RemovedSet, order)
        renamed == SeqOf(RenamedSet, order)
        proxies1 == [u \in ((DOMAIN self.proxies) \cup AddedSet) \ RemovedSet |->
                        IF u \in AddedSet THEN load(u, store[u])
                        ELSE IF u \in RenamedSet
                             THEN [self.proxies[u] EXCEPT !.name = store[self.datablocks[u]].name]
                             ELSE self.proxies[u]]
        datablocks1 == [u \in ((DOMAIN self.datablocks) \cup AddedSet) \ RemovedSet |-> u]
        Owners(data) == {u \in AddedSet : TypeOf(u) = "Object" /\ store[u].ref = data}
        Datas == {store[u].ref : u \in {x \in AddedSet : TypeOf(x) = "Object"}} \ {None}
        objects1 == [k \in (DOMAIN self.objects) \cup Datas |->
                        (IF k \in DOMAIN self.objects THEN self.objects[k] ELSE {}) \cup Owners(k)]
    IN [state |-> [proxies |-> proxies1, datablocks |-> datablocks1, objects |-> objects1],
        creations |-> [i \in 1..Len(added) |-> proxies1[added[i]]],
        removals |-> [i \in 1..Len(removed) |-> <<removed[i], self.proxies[removed[i]].type>>],
        renames |-> [i \in 1..Len(renamed) |->
                        <<renamed[i], self.proxies[renamed[i]].name, store[self.datablocks[renamed[i]]].name>>]]

----------------------------------------------------------------------------
(* BpyDataProxy.update *)

NoChangeset == [creations |-> <<>>, removals |-> <<>>, renames |-> <<>>, updates |-> <<>>,
                returned |-> FALSE]

\* the loop over the collection deltas: extends creations, removals and renames
RECURSIVE update_collections(_, _, _, _, _)
update_collections(deltas, self, store, order, acc) ==
    IF deltas = <<>> THEN [state |-> self, changeset |-> acc]
    ELSE LET collection_changeset == DatablockCollectionProxy_update(self, store, Head(deltas)[1], order)
         IN update_collections(Tail(deltas), collection_changeset.state, store, order,
                [acc EXCEPT !.creations = @ \o collection_changeset.creations,
                            !.removals = @ \o collection_changeset.removals,
                            !.renames = @ \o collection_changeset.renames])

\* a test that takes every delta, the empty one too, as a change
delta_always_set(delta) == TRUE

\* "if delta:" : the delta counts when it is not None
delta_is_set(delta) == delta.changed # {}

\* an update() that emits the delta and keeps the old snapshot
update_apply_dropped(proxy, delta) == proxy

\* what update() does with a non-empty delta: applies it to the proxy
update_apply(proxy, delta) == apply_to_proxy(proxy, delta)

\* what proxies.get returns for a uuid without proxy
NoProxy ==
    [mixer_uuid |-> None, collection_name |-> None, type |-> None, name |-> None,
     attr |-> 0, ref |-> None]

\* a lookup that answers with a new, empty proxy when the uuid has none
proxies_get_or_default(proxies, datablock) ==
    IF mixer_uuid(datablock) \in DOMAIN proxies THEN proxies[mixer_uuid(datablock)]
    ELSE load(datablock, NeverLived)

\* self.state.proxies.get(datablock.mixer_uuid)
proxies_get(proxies, datablock) ==
    IF mixer_uuid(datablock) \in DOMAIN proxies THEN proxies[mixer_uuid(datablock)] ELSE NoProxy

\* the loop over sorted_updates. A datablock that left the live store is a dangling
\* reference: reading it either raises (raises = TRUE) or still yields what the handle holds.
\* Nothing in the loop catches what proxy.diff raises: MaxDepthExceeded leaves the loop and
\* update() (exceeded: the datablock whose diff raised it)
RECURSIVE update_datablocks(_, _, _, _, _)
update_datablocks(sorted_updates, proxies, store, raises, acc) ==
    IF sorted_updates = <<>> THEN [proxies |-> proxies, updates |-> acc.updates,
                                   diffed |-> acc.diffed, raised |-> FALSE, exceeded |-> None]
    ELSE
        LET datablock == Head(sorted_updates)
            rest == Tail(sorted_updates)
            stale == ~IsLive(store, datablock)
        IN  IF TypeOf(datablock) \notin safe_depsgraph_updates
            THEN update_datablocks(rest, proxies, store, raises, acc)
            ELSE IF stale /\ raises
            THEN [proxies |-> proxies, updates |-> acc.updates, diffed |-> acc.diffed,
                  raised |-> TRUE, exceeded |-> None]
            ELSE IF TypeOf(datablock) = "Scene" /\ store[datablock].name = "_mixer_to_be_removed_"
            THEN update_datablocks(rest, proxies, store, raises, acc)
            ELSE IF proxies_get(proxies, datablock).mixer_uuid = None
            THEN update_datablocks(rest, proxies, store, raises, acc)
            ELSE IF traversal_raises(attribute_graph(store[datablock]), <<>>)
            THEN [proxies |-> proxies, updates |-> acc.updates, diffed |-> acc.diffed,
                  raised |-> TRUE, exceeded |-> datablock]
            ELSE
                LET proxy == proxies_get(proxies, datablock)
                    delta == diff(proxy, store[datablock])
                    seen == [acc EXCEPT !.diffed = @ \cup {datablock}]
                IN  IF delta_is_set(delta)
                    THEN update_datablocks(rest,
                            [proxies EXCEPT ![mixer_uuid(datablock)] = update_apply(proxy, delta)],
                            store, raises,
                            [seen EXCEPT !.updates = Append(@, delta)])
                    ELSE update_datablocks(rest, proxies, store, raises, seen)

\* a flush that keeps the queue
delayed_after_kept(delayed_updates, process_delayed_updates) == delayed_updates

\* the delayed queue after update(): cleared when it was merged
delayed_after(delayed_updates, process_delayed_updates) ==
    IF process_delayed_updates THEN {} ELSE delayed_updates

\* a merge into a copy: the caller's set is left as it was
merge_delayed_into_copy(updates, delayed_updates, process_delayed_updates) == updates

\* all_updates: the caller's set, merged in place with the delayed queue when asked
merge_delayed(updates, delayed_updates, process_delayed_updates) ==
    IF process_delayed_updates THEN updates \cup delayed_updates ELSE updates

\* update(diff, updates, process_delayed_updates): the result holds the new state of the
\* session, the Changeset returned (returned = FALSE when an exception left update()),
\* the caller's updates set after the call and the datablocks that were diffed
update(self, delayed_updates, store, updates, process_delayed_updates, bucketOrder, order, raises) ==
    LET collected_deltas == collection_deltas(bucketOrder)
        deltas == sorted(collected_deltas,
                    [i \in DOMAIN collected_deltas |-> creation_order_predicate(collected_deltas[i])])
        collected == update_collections(deltas, self, store, order,
                        [creations |-> <<>>, removals |-> <<>>, renames |-> <<>>])
        removals == sorted(collected.changeset.removals,
                    [i \in DOMAIN collected.changeset.removals |->
                        remove_order_predicate(collected.changeset.removals[i])])
        all_updates == merge_delayed(updates, delayed_updates, process_delayed_updates)
        listed_updates == SeqOf(all_updates, order)
        sorted_updates == sorted(listed_updates,
                    [i \in DOMAIN listed_updates |-> updates_order_predicate(listed_updates[i])])
        looped == update_datablocks(sorted_updates, collected.state.proxies, store, raises,
                        [updates |-> <<>>, diffed |-> {}])
    IN [state |-> [collected.state EXCEPT !.proxies = looped.proxies],
        delayed |-> delayed_after(delayed_updates, process_delayed_updates),
        all_updates |-> all_updates,
        sorted_updates |-> sorted_updates,
        diffed |-> looped.diffed,
        exceeded |-> looped.exceeded,
        changeset |-> [creations |-> collected.changeset.creations,
                       removals |-> removals,
                       renames |-> collected.changeset.renames,
                       updates |-> looped.updates,
                       returned |-> ~looped.raised]]

\* append_delayed_updates(delayed_updates)
append_delayed_updates(queue, delayed_updates) == queue \cup delayed_updates

----------------------------------------------------------------------------
(* The user of a peer edits the live store between two synchronization cycles *)

\* op: the operation; updates: its set argument; before, queue_before: the ProxyState and the
\* delayed queue it started from; all_updates: the working set of update(); diffed: the
\* datablocks on which update() called diff; again: the datablocks whose proxy the update()
\* just before this one built or brought up to date
NoCall == [op |-> "none", peer |-> 0, process_delayed_updates |-> FALSE, updates |-> {},
           before |-> EmptyState, queue_before |-> {}, all_updates |-> {}, diffed |-> {},
           again |-> {}, exceeded |-> None]

Edit(p, store) ==
    /\ edits < MaxEdits
    /\ cycles < MaxCycles
    /\ edits' = edits + 1
    /\ bpy_data' = [bpy_data EXCEPT ![p] = store]
    /\ call' = [NoCall EXCEPT !.op = "edit", !.peer = p]
    /\ changeset' = NoChangeset
    /\ UNCHANGED <<state, delayed, cast, cycles, network>>

UserCreate(p) ==
    \E d \in cast :
        \E ref \in {None} \cup {t \in RefTargets(d) : IsLive(bpy_data[p], t)} :
            /\ bpy_data[p][d].status = "never"
            /\ Edit(p, new_datablock(bpy_data[p], d, DefaultName, ref))

UserRemove(p) ==
    \E d \in cast :
        /\ IsLive(bpy_data[p], d)
        /\ Edit(p, delete_datablock(bpy_data[p], d))

UserRename(p) ==
    \E d \in cast, name \in Names :
        /\ IsLive(bpy_data[p], d)
        /\ collection_name(d) # None
        /\ bpy_data[p][d].name # name
        /\ Edit(p, set_name(bpy_data[p], d, name))

UserModify(p) ==
    \E d \in cast :
        /\ IsLive(bpy_data[p], d)
        /\ \/ /\ bpy_data[p][d].attr # Deepened
              /\ Edit(p, [bpy_data[p] EXCEPT ![d].attr = 1 - @])
           \/ \E ref \in ({None} \cup {t \in RefTargets(d) : IsLive(bpy_data[p], t)}) \ {bpy_data[p][d].ref} :
                /\ TypeOf(d) # "Object"
                /\ Edit(p, [bpy_data[p] EXCEPT ![d].ref = ref])

\* the user nests the attributes of a synchronized shape key beyond the depth the guard allows
UserDeepen(p) ==
    \E d \in cast :
        /\ TypeOf(d) = "Key"
        /\ IsLive(bpy_data[p], d)
        /\ mixer_uuid(d) \in DOMAIN state[p].proxies
        /\ bpy_data[p][d].attr # Deepened
        /\ Edit(p, [bpy_data[p] EXCEPT ![d].attr = Deepened])

----------------------------------------------------------------------------
(* The operations of BpyDataProxy, called by the synchronization cycle of a peer *)

\* the Objects known to the session with the data they own
Owned(self) ==
    {<<u, self.proxies[u].ref>> : u \in {x \in DOMAIN self.proxies :
                                            self.proxies[x].type = "Object" /\ self.proxies[x].ref # None}}

\* the uuids that a changeset creates, removes, updates
Created(cs) == {cs.creations[i].mixer_uuid : i \in 1..Len(cs.creations)}
Removals(cs) == {cs.removals[i][1] : i \in 1..Len(cs.removals)}
Updated(cs) == {cs.updates[i].mixer_uuid : i \in 1..Len(cs.updates)}
SyncedBy(cs) == Created(cs) \cup Updated(cs)

AppendDelayedUpdates(p) ==
    \E delayed_updates \in (SUBSET {d \in cast : IsLive(bpy_data[p], d)}) \ {{}} :
        /\ ~(delayed_updates \subseteq delayed[p])
        /\ cycles < MaxCycles
        /\ delayed' = [delayed EXCEPT ![p] = append_delayed_updates(@, delayed_updates)]
        /\ call' = [NoCall EXCEPT !.op = "append", !.peer = p, !.updates = delayed_updates,
                                  !.queue_before = delayed[p]]
        /\ changeset' = NoChangeset
        /\ cycles' = cycles + 1
        /\ UNCHANGED <<bpy_data, state, cast, edits, network>>

Update(p) ==
    /\ cycles < MaxCycles
    /\ \E updates \in SUBSET {d \in cast : IsLive(bpy_data[p], d)},
       process_delayed_updates \in BOOLEAN, order \in Orders(cast), raises \in BOOLEAN :
        /\ raises => \E d \in merge_delayed(updates, delayed[p], process_delayed_updates) :
                        ~IsLive(bpy_data[p], d)
        /\ \E r \in {update(state[p], delayed[p], bpy_data[p], updates, process_delayed_updates,
                           BucketOrder(order), order, raises)} :
            /\ cycles' = cycles + 1
            /\ state' = [state EXCEPT ![p] = r.state]
            /\ delayed' = [delayed EXCEPT ![p] = r.delayed]
            /\ changeset' = r.changeset
            /\ call' = [op |-> "update", peer |-> p,
                        process_delayed_updates |-> process_delayed_updates,
                        updates |-> updates, before |-> state[p], queue_before |-> delayed[p],
                        all_updates |-> r.all_updates, diffed |-> r.diffed,
                        exceeded |-> r.exceeded,
                        again |-> IF call.op = "update" /\ call.peer = p
                                  THEN SyncedBy(changeset) ELSE {}]
            /\ UNCHANGED <<bpy_data, cast, edits, network>>

----------------------------------------------------------------------------
(* One peer: edits and synchronization cycles *)

\* the scene in which every datablock of the cast lives, each referencing what it can
RECURSIVE Populate(_, _)
Populate(store, todo) ==
    IF todo = <<>> THEN store
    ELSE LET d == Head(todo)
             targets == {t \in RefTargets(d) : IsLive(store, t)}
         IN Populate(new_datablock(store, d, DefaultName,
                                   IF targets = {} THEN None ELSE CHOOSE t \in targets : TRUE),
                     Tail(todo))

\* BpyDataProxy.load(): the state of a session that has loaded the scene
BpyDataProxy_load(store) ==
    update(EmptyState, {}, store, {}, FALSE,
           BucketOrder(SeqOf(DOMAIN store, Order1)), SeqOf(DOMAIN store, Order1), FALSE).state

\* the scenes a session starts on: the first datablocks of the cast live in it
InitialStores(scene) ==
    LET all == SeqOf(scene, <<"m1", "o1", "o2", "c1", "k1", "s1", "e1", "w1">>)
    IN {Populate(EmptyStore(scene), SubSeq(all, 1, n)) : n \in 0..Len(all)}

\* a session starts on a scene that it has loaded
Init ==
    /\ cast \in Casts
    /\ \E store \in InitialStores(cast) :
        /\ bpy_data = [p \in Peers |-> store]
        /\ state = [p \in Peers |-> BpyDataProxy_load(store)]
    /\ delayed = [p \in Peers |-> {}]
    /\ changeset = NoChangeset
    /\ call = NoCall
    /\ edits = 0
    /\ cycles = 0
    /\ network = {}

Next ==
    \/ UserCreate(1)
    \/ UserRemove(1)
    \/ UserRename(1)
    \/ UserModify(1)
    \/ UserDeepen(1)
    \/ AppendDelayedUpdates(1)
    \/ Update(1)

Spec == Init /\ [][Next]_vars

----------------------------------------------------------------------------
(* Properties of the Changeset returned by update() *)

Returned == call.op = "update" /\ changeset.returned

Position(seq, uuid) == CHOOSE i \in 1..Len(seq) : seq[i][1] = uuid
NoDuplicate(seq) == \A i, j \in 1..Len(seq) : seq[i] = seq[j] => i = j
UuidsOf(seq) == [i \in 1..Len(seq) |-> seq[i].mixer_uuid]

\* C1: in the Changeset returned by update(), the removal of an Object precedes the removal
\* of the data that it owns, whenever both are removed in the same cycle
C1_OwnerRemovedBeforeData ==
    Returned =>
        \A pair \in Owned(call.before) :
            (pair[1] \in Removals(changeset) /\ pair[2] \in Removals(changeset))
                => Position(changeset.removals, pair[1]) < Position(changeset.removals, pair[2])

C6_OneEntryPerUuid ==
    Returned =>
        /\ NoDuplicate(UuidsOf(changeset.creations))
        /\ NoDuplicate([i \in 1..Len(changeset.removals) |-> changeset.removals[i][1]])
        /\ NoDuplicate(UuidsOf(changeset.updates))
        /\ Created(changeset) \cap Removals(changeset) = {}
        /\ Created(changeset) \cap Updated(changeset) = {}
        /\ Removals(changeset) \cap Updated(changeset) = {}

\* C6 witness: a cycle that creates a datablock, is notified of an update of this datablock
\* and emits the update of another one
C6_Witness ==
    /\ Returned
    /\ Created(changeset) \cap call.all_updates # {}
    /\ Updated(changeset) # {}

\* C8: an update() that directly follows an update() that built the proxy of a datablock or
\* brought it up to date emits no update for this datablock
C8_IdempotentSnapshot ==
    call.op = "update" => Updated(changeset) \cap call.again = {}

\* C8 witness: a datablock whose delta the previous update() emitted is diffed again
C8_Witness ==
    /\ Returned
    /\ \E d \in call.again \cap call.diffed : d \in DOMAIN call.before.proxies

\* C9: update() appends an entry to changeset.updates exactly for the diffed datablocks whose
\* diff is not empty; the proxy of a datablock whose diff is empty keeps its attributes
C9_NoEmptyDelta ==
    call.op = "update" =>
        /\ \A i \in 1..Len(changeset.updates) : changeset.updates[i].changed # {}
        /\ \A d \in call.diffed :
            LET uuid == mixer_uuid(d)
                known == uuid \in DOMAIN call.before.proxies
                differs == known /\ changed_attributes(call.before.proxies[uuid], bpy_data[call.peer][d]) # {}
            IN /\ uuid \in Updated(changeset) <=> differs
               /\ (known /\ ~differs) =>
                    /\ state[call.peer].proxies[uuid].attr = call.before.proxies[uuid].attr
                    /\ state[call.peer].proxies[uuid].ref = call.before.proxies[uuid].ref

\* C9 witness: a cycle diffs a datablock that has not changed and one that has
C9_Witness ==
    /\ Returned
    /\ \E d \in call.diffed : mixer_uuid(d) \in DOMAIN call.before.proxies /\ mixer_uuid(d) \notin Updated(changeset)
    /\ Updated(changeset) # {}

\* what update() diffs among the datablocks of its working set
Diffable(p, d) ==
    /\ TypeOf(d) \in safe_depsgraph_updates
    /\ ~(TypeOf(d) = "Scene" /\ bpy_data[p][d].name = "_mixer_to_be_removed_")
    /\ mixer_uuid(d) \in DOMAIN state[p].proxies

----------------------------------------------------------------------------
(* BpyDataProxy.rename_datablocks (receiver side) *)

\* f"_mixer_tmp_{uuid}"
tmp_name(uuid) == "_mixer_tmp_" \o uuid
\* f"_mixer_rename_conflict_{uuid}"
conflict_name(uuid) == "_mixer_rename_conflict_" \o uuid

\* a test that never declares a conflict
never_a_conflict(name, old_name, new_name) == FALSE

\* a test that looks at the old name only
conflict_unless_old_name(name, old_name, new_name) == name # old_name

\* the local name matches neither end of the received rename: the peers renamed concurrently
is_rename_conflict(name, old_name, new_name) == name # new_name /\ name # old_name

\* DatablockCollectionProxy.rename_datablock(proxy, new_name, datablock): names the live
\* datablock and the proxy; r holds the ProxyState, the live store and the trace of the
\* renames asked for so far with the live store that each one left
rename_datablock(r, uuid, new_name) ==
    LET store == set_name(r.store, r.state.datablocks[uuid], new_name)
    IN [r EXCEPT !.state.proxies[uuid].name = new_name,
                 !.store = store,
                 !.trace = Append(@, [uuid |-> uuid, name |-> new_name, store |-> store])]

\* the first loop: builds renames, a list of <<uuid, old_name, tmp_name, new_name>>, and
\* rename_changeset_to_send, a list of <<uuid, old_name, new_name>> (the fourth member, a
\* text for the log, is left out); an item without proxy makes the method return []
RECURSIVE rename_items(_, _, _, _)
rename_items(items, self, store, acc) ==
    IF items = <<>> THEN acc
    ELSE LET uuid == Head(items)[1]
             old_name == Head(items)[2]
             new_name == Head(items)[3]
         IN IF uuid \notin DOMAIN self.proxies
            THEN [renames |-> <<>>, rename_changeset_to_send |-> <<>>]
            ELSE IF self.proxies[uuid].collection_name = None
                 THEN rename_items(Tail(items), self, store, acc)
                 ELSE LET name == store[self.datablocks[uuid]].name
                          conflict == is_rename_conflict(name, old_name, new_name)
                          target == IF conflict THEN conflict_name(uuid) ELSE new_name
                      IN rename_items(Tail(items), self, store,
                            [renames |-> Append(acc.renames, <<uuid, old_name, tmp_name(uuid), target>>),
                             rename_changeset_to_send |->
                                IF conflict
                                THEN Append(acc.rename_changeset_to_send, <<uuid, name, target>>)
                                ELSE acc.rename_changeset_to_send])

\* a rename in one phase: every datablock is named with its target name at once
rename_in_one_phase(renames) == [i \in 1..Len(renames) |-> <<renames[i][1], renames[i][4]>>]

\* the two phases: every datablock is named with its temporary name, then every datablock is
\* named with its target name
rename_phases(renames) ==
    [i \in 1..Len(renames) |-> <<renames[i][1], renames[i][3]>>]
        \o [i \in 1..Len(renames) |-> <<renames[i][1], renames[i][4]>>]

RECURSIVE rename_apply(_, _)
rename_apply(steps, r) ==
    IF steps = <<>> THEN r
    ELSE rename_apply(Tail(steps), rename_datablock(r, Head(steps)[1], Head(steps)[2]))

rename_datablocks(self, store, items) ==
    LET found == rename_items(items, self, store, [renames |-> <<>>, rename_changeset_to_send |-> <<>>])
        r == rename_apply(rename_phases(found.renames), [state |-> self, store |-> store, trace |-> <<>>])
    IN [state |-> r.state, store |-> r.store, trace |-> r.trace,
        rename_changeset_to_send |-> found.rename_changeset_to_send]

\* the rename commands a peer may receive, and the batches made of them
MaxBatch == 2
RenameItems == {<<uuid, old_name, new_name>> : uuid \in cast, old_name \in Names, new_name \in Names}
RenameBatches == UNION {[1..n -> RenameItems] : n \in 1..MaxBatch}

\* a peer receives a batch of rename commands
RenameDatablocks(p) ==
    /\ cycles < MaxCycles
    /\ \E items \in RenameBatches :
        /\ \A i \in 1..Len(items) : collection_name(items[i][1]) # None /\ items[i][2] # items[i][3]
        /\ \A i, j \in 1..Len(items) : items[i][1] = items[j][1] => i = j
        /\ \E i \in 1..Len(items) : items[i][1] \in DOMAIN state[p].proxies
        /\ \E r \in {rename_datablocks(state[p], bpy_data[p], items)} :
            /\ state' = [state EXCEPT ![p] = r.state]
            /\ bpy_data' = [bpy_data EXCEPT ![p] = r.store]
            /\ call' = [op |-> "rename_datablocks", peer |-> p, items |-> items,
                        before |-> state[p], store_before |-> bpy_data[p], trace |-> r.trace,
                        rename_changeset_to_send |-> r.rename_changeset_to_send]
    /\ cycles' = cycles + 1
    /\ UNCHANGED <<delayed, changeset, cast, edits, network>>

NextBatch ==
    \/ UserCreate(1)
    \/ UserRename(1)
    \/ RenameDatablocks(1)

SpecBatch == Init /\ [][NextBatch]_vars

\* the items of a batch whose uuid has a proxy
WithProxy(self, items) == SelectSeq(items, LAMBDA item : item[1] \in DOMAIN self.proxies)

\* C3: the batch <<(u1, "A", "B"), (u2, "B", "A")>> applied where u1 is named "A" and u2 is
\* named "B" leaves u1 named "B" and u2 named "A", declares no conflict, and every rename
\* on the way gives the datablock the name asked for, no two datablocks of the bucket
\* carrying the same name
C3_SwapInTwoPhases ==
    \A u1, u2 \in cast :
        (/\ call.op = "rename_datablocks"
         /\ call.items = <<<<u1, "A", "B">>, <<u2, "B", "A">>>>
         /\ {u1, u2} \subseteq DOMAIN call.before.proxies
         /\ call.store_before[u1].name = "A"
         /\ call.store_before[u2].name = "B")
        => /\ bpy_data[call.peer][u1].name = "B"
           /\ bpy_data[call.peer][u2].name = "A"
           /\ call.rename_changeset_to_send = <<>>
           /\ Len(call.trace) = 4
           /\ \A i \in 1..Len(call.trace) :
                /\ call.trace[i].store[call.trace[i].uuid].name = call.trace[i].name
                /\ call.trace[i].store[u1].name # call.trace[i].store[u2].name

\* C3 witness: the swap has been applied to two datablocks of one bucket
C3_Witness ==
    /\ call.op = "rename_datablocks"
    /\ call.items = <<<<"o1", "A", "B">>, <<"o2", "B", "A">>>>
    /\ call.store_before["o1"].name = "A"
    /\ call.store_before["o2"].name = "B"
    /\ bpy_data[call.peer]["o1"].name = "B"

\* C4: a batch holding an item whose uuid has no proxy has the effect of the batch without
\* this item, on the live store, on the proxies and on the conflict renames returned
C4_BatchSurvivesMissingProxy ==
    (call.op = "rename_datablocks" /\ WithProxy(call.before, call.items) # call.items) =>
        LET r == rename_datablocks(call.before, call.store_before, WithProxy(call.before, call.items))
        IN /\ bpy_data[call.peer] = r.store
           /\ state[call.peer] = r.state
           /\ call.rename_changeset_to_send = r.rename_changeset_to_send

----------------------------------------------------------------------------
(* Three peers: the users of two of them rename, every peer applies what it receives *)

PeerNames == {"B", "C"}

\* a name that a peer carries or that a command in flight mentions
Carried(name) == \E p \in Peers, d \in cast : IsLive(bpy_data[p], d) /\ bpy_data[p][d].name = name
InFlight(name) ==
    \E m \in network : \E i \in 1..Len(m.items) : name \in {m.items[i][2], m.items[i][3]}

\* the messages that carry a batch of rename commands from a peer to every other peer
\* (copy tells apart the equal batches that one peer sends to another)
Broadcast(p, items) ==
    IF items = <<>> THEN {}
    ELSE {[from |-> p, to |-> q, items |-> items,
           copy |-> 1 + Cardinality({m \in network : m.from = p /\ m.to = q /\ m.items = items})]
            : q \in Peers \ {p}}

\* the user of peer 1 or 2 gives, once, a new name to a datablock of which the peer knows
\* no rename
PeerRename(p) ==
    \E d \in cast, name \in PeerNames :
        /\ p \in {1, 2}
        /\ \A x \in cast : <<p, x>> \notin call.renamed
        /\ IsLive(bpy_data[p], d)
        /\ collection_name(d) # None
        /\ bpy_data[p][d].name \notin PeerNames \cup {conflict_name(d)}
        /\ ~Carried(name) /\ ~InFlight(name)
        /\ bpy_data' = [bpy_data EXCEPT ![p] = set_name(@, d, name)]
        /\ edits' = edits + 1
        /\ call' = [call EXCEPT !.renamed = @ \cup {<<p, d>>}]
        /\ UNCHANGED <<state, delayed, changeset, cast, cycles, network>>

\* the names that the proxies of a peer do not know yet
Unsent(p) ==
    {u \in DOMAIN state[p].proxies : /\ IsLive(bpy_data[p], state[p].datablocks[u])
                                     /\ state[p].proxies[u].name # bpy_data[p][state[p].datablocks[u]].name}

\* the cycle of a peer: update(), whose renames go to the other peers
PeerUpdate(p) ==
    /\ Unsent(p) # {}
    /\ \E r \in {update(state[p], delayed[p], bpy_data[p], {}, FALSE,
                       BucketOrder(SeqOf(cast, Order1)), SeqOf(cast, Order1), FALSE)} :
        /\ state' = [state EXCEPT ![p] = r.state]
        /\ network' = network \cup Broadcast(p, r.changeset.renames)
    /\ UNCHANGED <<bpy_data, delayed, changeset, call, cast, edits, cycles>>

\* a peer receives a batch of rename commands, in any order, and sends the conflict renames
PeerReceive(p) ==
    \E m \in network :
        /\ m.to = p
        /\ \E r \in {rename_datablocks(state[p], bpy_data[p], m.items)} :
            /\ state' = [state EXCEPT ![p] = r.state]
            /\ bpy_data' = [bpy_data EXCEPT ![p] = r.store]
            /\ network' = (network \ {m}) \cup Broadcast(p, r.rename_changeset_to_send)
        /\ UNCHANGED <<delayed, changeset, call, cast, edits, cycles>>

InitPeers ==
    /\ cast \in Casts
    /\ \E store \in {Populate(EmptyStore(cast), SeqOf(cast, Reverse(Order1)))} :
        /\ bpy_data = [p \in Peers |-> store]
        /\ state = [p \in Peers |-> BpyDataProxy_load(store)]
    /\ delayed = [p \in Peers |-> {}]
    /\ changeset = NoChangeset
    /\ call = [renamed |-> {}]
    /\ edits = 0
    /\ cycles = 0
    /\ network = {}

NextPeers == \E p \in Peers : PeerRename(p) \/ PeerUpdate(p) \/ PeerReceive(p)

SpecPeers == InitPeers /\ [][NextPeers]_vars

\* nothing is in flight and no peer has a rename to send
Quiescent == network = {} /\ \A p \in Peers : Unsent(p) = {}

\* C2: when the users of two peers have renamed the same uuid, each with a name of its own,
\* and every rename command has been delivered, in whatever order, every peer, the third one
\* included, carries the conflict name of the uuid
C2_ConflictNameEverywhere ==
    Quiescent =>
        \A d \in cast :
            {<<1, d>>, <<2, d>>} \subseteq call.renamed
                => \A p \in Peers : bpy_data[p][d].name = conflict_name(d)

\* C2 witness: two users renamed the same uuid and every command has been delivered
C2_Witness ==
    /\ Quiescent
    /\ \E d \in cast : /\ {<<1, d>>, <<2, d>>} \subseteq call.renamed
                       /\ bpy_data[3][d].name = conflict_name(d)

----------------------------------------------------------------------------
(* The receiver side: the commands of a changeset applied to a second replica.      *)
(* r holds the ProxyState and the live store of the receiver.                       *)

\* DatablockCollectionProxy.create_datablock: creates the datablock in the live store from
\* the incoming proxy, registers it, and resolves the references that waited for it
DatablockCollectionProxy_create_datablock(r, incoming_proxy) ==
    LET uuid == incoming_proxy.mixer_uuid
        ref == IF IsLive(r.store, incoming_proxy.ref) THEN incoming_proxy.ref ELSE None
        created == [new_datablock(r.store, uuid, incoming_proxy.name, ref)
                        EXCEPT ![uuid].attr = incoming_proxy.attr]
        resolved == [x \in DOMAIN created |->
                        IF /\ IsLive(created, x)
                           /\ x \in DOMAIN r.state.proxies
                           /\ r.state.proxies[x].ref = uuid
                           /\ created[x].ref = None
                        THEN [created[x] EXCEPT !.ref = uuid]
                        ELSE created[x]]
    IN [state |-> [proxies |-> Put(r.state.proxies, uuid, incoming_proxy),
                   datablocks |-> Put(r.state.datablocks, uuid, uuid),
                   objects |-> IF incoming_proxy.type = "Object" /\ ref # None
                               THEN objects_add(r.state.objects, ref, uuid)
                               ELSE r.state.objects],
        store |-> resolved]

\* a create_datablock that takes any bucket name
create_datablock_any_bucket(r, incoming_proxy) ==
    DatablockCollectionProxy_create_datablock(r, incoming_proxy)

\* BpyDataProxy.create_datablock
create_datablock(r, incoming_proxy) ==
    IF incoming_proxy.collection_name = None \/ incoming_proxy.mixer_uuid \notin DOMAIN r.store
    THEN r
    ELSE DatablockCollectionProxy_create_datablock(r, incoming_proxy)

\* DatablockCollectionProxy.update_datablock: applies the delta to the datablock and to
\* its proxy
DatablockCollectionProxy_update_datablock(r, delta) ==
    LET uuid == delta.mixer_uuid
    IN IF uuid \notin DOMAIN r.state.proxies \/ ~IsLive(r.store, r.state.datablocks[uuid])
       THEN r
       ELSE [state |-> [r.state EXCEPT !.proxies[uuid] = apply_to_proxy(@, delta)],
             store |-> [r.store EXCEPT
                            ![r.state.datablocks[uuid]].attr = IF "attr" \in delta.changed THEN delta.attr ELSE @,
                            ![r.state.datablocks[uuid]].ref = IF "ref" \in delta.changed THEN delta.ref ELSE @]]

\* BpyDataProxy.update_datablock
update_datablock(r, delta) ==
    IF delta.collection_name = None THEN r ELSE DatablockCollectionProxy_update_datablock(r, delta)

\* BpyDataProxy.remove_datablock. The datablock of an Object that the live store removed
\* along with its data is a dangling reference: reading it raises (raises = TRUE) or yields
\* what the removed record holds
remove_datablock(r, uuid, raises) ==
    IF uuid \notin DOMAIN r.state.proxies THEN r
    ELSE IF r.state.proxies[uuid].collection_name = None THEN r
    ELSE LET self == r.state
             datablock == self.datablocks[uuid]
             dangling == ~IsLive(r.store, datablock)
             data == r.store[datablock].ref
             data_uuid == IF TypeOf(datablock) = "Object" /\ data # None THEN mixer_uuid(data) ELSE None
             store == IF dangling THEN r.store ELSE delete_datablock(r.store, datablock)
         IN IF dangling /\ raises THEN r
            ELSE IF data_uuid # None
            THEN IF data_uuid \in DOMAIN self.objects /\ uuid \in self.objects[data_uuid]
                 THEN [state |-> [proxies |-> Del(self.proxies, uuid),
                                  datablocks |-> Del(self.datablocks, uuid),
                                  objects |-> [self.objects EXCEPT ![data_uuid] = @ \ {uuid}]],
                       store |-> store]
                 ELSE \* set.remove raises KeyError, the defaultdict has got the key
                      [state |-> [self EXCEPT !.objects =
                                    IF data_uuid \in DOMAIN self.objects THEN @ ELSE Put(@, data_uuid, {})],
                       store |-> store]
            ELSE [state |-> [proxies |-> Del(self.proxies, uuid),
                             datablocks |-> Del(self.datablocks, uuid),
                             objects |-> Del(self.objects, uuid)],
                  store |-> store]

\* the commands of a section applied one after the other
RECURSIVE apply_removals(_, _, _)
apply_removals(removals, r, raises) ==
    IF removals = <<>> THEN r
    ELSE apply_removals(Tail(removals), remove_datablock(r, Head(removals)[1], raises), raises)

RECURSIVE apply_creations(_, _)
apply_creations(creations, r) ==
    IF creations = <<>> THEN r
    ELSE apply_creations(Tail(creations), create_datablock(r, Head(creations)))

RECURSIVE apply_updates(_, _)
apply_updates(updates, r) ==
    IF updates = <<>> THEN r
    ELSE apply_updates(Tail(updates), update_datablock(r, Head(updates)))

\* the renames of a changeset as the rename command carries them
rename_command(renames) == [i \in 1..Len(renames) |-> <<renames[i][1], renames[i][2], renames[i][3]>>]

\* the receiver applies the sections of a changeset: removals, renames, creations, updates
apply_changeset(r, cs, raises) ==
    LET removed == apply_removals(cs.removals, r, raises)
        renamed == IF cs.renames = <<>> THEN removed
                   ELSE LET done == rename_datablocks(removed.state, removed.store, rename_command(cs.renames))
                        IN [state |-> done.state, store |-> done.store]
        created == apply_creations(cs.creations, renamed)
    IN apply_updates(cs.updates, created)

\* the cycle of replica 1, whose changeset replica 2 applies
Synchronize ==
    /\ cycles < MaxCycles
    /\ \E order \in Orders(cast), raises \in BOOLEAN :
        \E sent \in {update(state[1], delayed[1], bpy_data[1], {d \in cast : IsLive(bpy_data[1], d)},
                            FALSE, BucketOrder(order), order, FALSE)} :
            \E received \in {apply_changeset([state |-> state[2], store |-> bpy_data[2]],
                                             sent.changeset, raises)} :
                /\ state' = [state EXCEPT ![1] = sent.state, ![2] = received.state]
                /\ bpy_data' = [bpy_data EXCEPT ![2] = received.store]
                /\ changeset' = sent.changeset
                /\ call' = [op |-> "synchronize", peer |-> 1, before |-> state[1]]
    /\ cycles' = cycles + 1
    /\ UNCHANGED <<delayed, cast, edits, network>>

NextReplica ==
    \/ UserCreate(1)
    \/ UserRemove(1)
    \/ UserRename(1)
    \/ UserModify(1)
    \/ Synchronize

SpecReplica == Init /\ [][NextReplica]_vars

\* two peers hold the same live datablocks in the synchronized buckets, and the same proxies
SameLive(p, q) ==
    \A d \in {x \in cast : collection_name(x) # None} :
        /\ IsLive(bpy_data[p], d) <=> IsLive(bpy_data[q], d)
        /\ IsLive(bpy_data[p], d) => bpy_data[p][d] = bpy_data[q][d]
SameProxies(p, q) == state[p].proxies = state[q].proxies

\* C7: once replica 2 has applied the changeset that update() produced on replica 1, both
\* hold the same uuids, with the same names and the same synchronized attributes
C7_ReplicasConverge ==
    call.op = "synchronize" => SameLive(1, 2) /\ SameProxies(1, 2)

----------------------------------------------------------------------------
(* RecursionGuard: the stack of attribute names of the traversal in progress *)

\* the variables of the session, which a unit under test leaves alone
session == <<bpy_data, state, delayed, changeset, cast, edits, cycles, network>>

\* a session in which nothing is loaded
NoSession ==
    /\ cast = {}
    /\ bpy_data = [p \in Peers |-> EmptyStore({})]
    /\ state = [p \in Peers |-> EmptyState]
    /\ delayed = [p \in Peers |-> {}]
    /\ changeset = NoChangeset
    /\ edits = 0
    /\ cycles = 0
    /\ network = {}

\* the traversal enters the attribute nested under the current one
GuardPush ==
    /\ call.op \in {"RecursionGuard", "push", "pop"}
    /\ ~call.raised
    /\ has_attribute(call.graph, Len(call.property_stack) + 1)
    /\ \E r \in {push(call.property_stack,
                      attribute_name(call.graph, Len(call.property_stack) + 1))} :
        call' = [call EXCEPT !.op = "push", !.property_stack = r.property_stack,
                             !.raised = r.raised, !.property_path = r.property_path]
    /\ UNCHANGED session

\* the traversal leaves an attribute, or the exception unwinds one level
GuardPop ==
    /\ call.op \in {"push", "pop"}
    /\ call.property_stack # <<>>
    /\ call' = [call EXCEPT !.op = "pop", !.property_stack = pop(call.property_stack),
                            !.raised = FALSE, !.property_path = ""]
    /\ UNCHANGED session

\* RecursionGuard(): an empty stack, before the traversal of one of the graphs
InitGuard ==
    /\ NoSession
    /\ \E graph \in Graphs :
        call = [op |-> "RecursionGuard", graph |-> graph, property_stack |-> <<>>,
                raised |-> FALSE, property_path |-> ""]

NextGuard == GuardPush \/ GuardPop

SpecGuard == InitGuard /\ [][NextGuard]_vars

\* the names of the levels 1 .. depth of a graph, joined by dots
RECURSIVE PathTo(_, _)
PathTo(graph, depth) ==
    IF depth = 0 THEN ""
    ELSE IF depth = 1 THEN attribute_name(graph, 1)
    ELSE PathTo(graph, depth - 1) \o "." \o attribute_name(graph, depth)

\* C11: a push raises MaxDepthExceeded exactly when the stack, after the push, is deeper than
\* 30 entries, and the exception carries the names on the stack, in the order pushed, joined
\* by dots; a pop never raises; a traversal that stops at the exception never holds more than
\* 31 entries, however deep or cyclic the graph is
C11_GuardRaisesBeyondMaxDepth ==
    /\ call.op = "push" =>
        /\ call.raised <=> Len(call.property_stack) > 30
        /\ call.raised => call.property_path = PathTo(call.graph, Len(call.property_stack))
        /\ \A i \in DOMAIN call.property_stack :
                call.property_stack[i] = attribute_name(call.graph, i)
    /\ call.op = "pop" => ~call.raised
    /\ Len(call.property_stack) <= 31

\* the 31st nested push on a graph with a cycle raised
C11_Witness ==
    /\ call.op = "push"
    /\ call.graph.depth = Cyclic
    /\ call.graph.period = 2
    /\ call.raised
    /\ Len(call.property_stack) = 31

----------------------------------------------------------------------------
(* Failures inside one update() *)

\* C12: when the diff of one datablock raises MaxDepthExceeded, update() still returns a
\* Changeset and still diffs every other datablock of its working set that it can diff
C12_DepthFailureIsolated ==
    (call.op = "update" /\ call.exceeded # None) =>
        /\ changeset.returned
        /\ \A d \in call.all_updates \ {call.exceeded} :
            (IsLive(bpy_data[call.peer], d) /\ Diffable(call.peer, d)) => d \in call.diffed

----------------------------------------------------------------------------
(* bpy_data_ctor: the construction of a received datablock in its bucket *)

\* the buckets with a constructor of their own, and two buckets ("meshes", "cameras") that
\* fall back on the default one
registered_ctors == {"images", "objects", "lights", "node_groups", "sounds", "curves", "shape_keys"}
CtorBuckets == registered_ctors \cup {"meshes", "cameras"}

\* the constructors that run the live construction call inside a try/except and return None
\* when it is rejected: the default one (lines 211-216) and the one of images (232-253).
\* shape_keys delegates to DatablockProxy.create_shape_key_datablock, which follows the
\* construction contract
guarded_ctors == {"default", "images", "shape_keys"}

\* dispatch_value: the function registered for the value, else the default
dispatch_ctor(bucket) ==
    IF bucket \in registered_ctors THEN bucket ELSE "default"

\* bpy_data_ctor(bucket, proxy, context). rejected: the live construction call
\* (collection.new, collection.load) raises. The result is the datablock, or None, or the
\* exception that leaves the constructor
bpy_data_ctor(bucket, proxy, rejected) ==
    IF ~rejected THEN [raised |-> FALSE, id |-> proxy.mixer_uuid]
    ELSE IF dispatch_ctor(bucket) \in guarded_ctors
    THEN [raised |-> FALSE, id |-> None]
    ELSE [raised |-> TRUE, id |-> None]

\* the creation commands received: one datablock for each bucket
IncomingProxies ==
    {[mixer_uuid |-> b \o "-uuid", collection_name |-> b, name |-> DefaultName] : b \in CtorBuckets}

\* DatablockCollectionProxy.create_datablock: constructs the datablock, and registers it in
\* ProxyState only when the constructor returned one
ctor_create_datablock(self, store, incoming_proxy, rejected) ==
    LET uuid == incoming_proxy.mixer_uuid
        built == bpy_data_ctor(incoming_proxy.collection_name, incoming_proxy, rejected)
    IN IF built.raised \/ built.id = None
       THEN [state |-> self, store |-> store, raised |-> built.raised, id |-> None]
       ELSE [state |-> [self EXCEPT !.proxies = Put(@, uuid, incoming_proxy),
                                    !.datablocks = Put(@, uuid, built.id)],
             store |-> store \cup {built.id},
             raised |-> FALSE, id |-> built.id]

\* the receiver processes one creation command; the live store accepts or rejects the
\* construction call
CreateDatablock ==
    \E incoming_proxy \in IncomingProxies, rejected \in BOOLEAN :
        /\ incoming_proxy.mixer_uuid \notin DOMAIN state[1].proxies
        /\ \E r \in {ctor_create_datablock(state[1], bpy_data[1], incoming_proxy, rejected)} :
            /\ state' = [state EXCEPT ![1] = r.state]
            /\ bpy_data' = [bpy_data EXCEPT ![1] = r.store]
            /\ call' = [op |-> "create_datablock", collection_name |-> incoming_proxy.collection_name,
                        mixer_uuid |-> incoming_proxy.mixer_uuid, rejected |-> rejected,
                        raised |-> r.raised, id |-> r.id, before |-> state[1]]
        /\ UNCHANGED <<delayed, changeset, cast, edits, cycles, network>>

\* a receiver with an empty ProxyState; its live store is the set of datablocks constructed
InitCtor ==
    /\ cast = {}
    /\ bpy_data = [p \in Peers |-> {}]
    /\ state = [p \in Peers |-> EmptyState]
    /\ delayed = [p \in Peers |-> {}]
    /\ changeset = NoChangeset
    /\ call = [op |-> "none"]
    /\ edits = 0
    /\ cycles = 0
    /\ network = {}

NextCtor == CreateDatablock

SpecCtor == InitCtor /\ [][NextCtor]_vars

\* C13: in every bucket, a construction call that the live store rejects makes
\* bpy_data_ctor return no datablock without raising, and leaves ProxyState as it was
C13_RejectedConstructionSkipped ==
    (call.op = "create_datablock" /\ call.rejected) =>
        /\ ~call.raised
        /\ call.id = None
        /\ state[1] = call.before

----------------------------------------------------------------------------
(* fit_aos: the length of a live collection adjusted to the incoming array of structures *)

MaxLength == 3

\* the values held by the elements of a collection
Elements == {1, 2}

\* the arrays of structures received, and the live collections: sequences of elements
AosProxies == UNION {[1..n -> Elements] : n \in 0..MaxLength}

resize_geometry_types ==
    {"MeshEdges", "MeshLoops", "MeshLoopTriangles", "MeshPolygons", "MeshVertices"}

\* the collections passed to fit_aos: by the type of their bl_rna; None when the collection
\* has no bl_rna
AosTypes ==
    resize_geometry_types \cup {"GPencilStrokePoints", "SplineBezierPoints", "MeshUVLoopLayer", None}

\* an add that makes one slot too many
aos_add_one_more(target, count) == target \o [i \in 1..(count + 1) |-> 0]

\* target.add(count): count new elements, with default values, at the end
aos_add(target, count) == target \o [i \in 1..count |-> 0]

\* target.pop() repeated while delta < 0
RECURSIVE aos_pop(_, _)
aos_pop(target, delta) ==
    IF delta >= 0 THEN target
    ELSE aos_pop(SubSeq(target, 1, Len(target) - 1), delta + 1)

\* fit_aos(target, proxy, context). The result holds the collection, whether an error was
\* logged, and whether an exception left fit_aos: no path of the function raises
fit_aos(target, target_rna, incoming_length) ==
    LET existing_length == Len(target)
        delta == incoming_length - existing_length
    IN  IF target_rna = None THEN [target |-> target, logged |-> FALSE, raised |-> FALSE]
        ELSE IF target_rna \in resize_geometry_types
        THEN IF existing_length # incoming_length
             THEN IF existing_length # 0
                  THEN [target |-> target, logged |-> TRUE, raised |-> FALSE]
                  ELSE [target |-> aos_add(target, incoming_length), logged |-> FALSE, raised |-> FALSE]
             ELSE [target |-> target, logged |-> FALSE, raised |-> FALSE]
        ELSE IF target_rna = "GPencilStrokePoints"
        THEN IF delta > 0
             THEN [target |-> aos_add(target, delta), logged |-> FALSE, raised |-> FALSE]
             ELSE [target |-> aos_pop(target, delta), logged |-> FALSE, raised |-> FALSE]
        ELSE IF target_rna = "SplineBezierPoints"
        THEN IF delta > 0
             THEN [target |-> aos_add(target, delta), logged |-> FALSE, raised |-> FALSE]
             ELSE IF delta < 0
             THEN [target |-> target, logged |-> TRUE, raised |-> FALSE]
             ELSE [target |-> target, logged |-> FALSE, raised |-> FALSE]
        ELSE [target |-> target, logged |-> TRUE, raised |-> FALSE]

\* the wholesale write of the buffer into the collection (foreach_set): it needs a
\* collection of the length of the buffer
write_soa(target, buffer) == IF Len(target) = Len(buffer) THEN buffer ELSE target

\* a received array of structures is fitted into the live collection
FitAos ==
    /\ call.op \in {"collection", "fit_aos", "update_soa"}
    /\ \E proxy \in AosProxies :
        \E r \in {fit_aos(call.target, call.target_rna, Len(proxy))} :
            call' = [op |-> "fit_aos", target_rna |-> call.target_rna, target |-> r.target,
                     proxy |-> proxy, existing_length |-> Len(call.target),
                     logged |-> r.logged, raised |-> r.raised]
    /\ UNCHANGED session

\* update_soa: the buffer of the array just fitted is written into the collection
UpdateSoa ==
    /\ call.op = "fit_aos"
    /\ call' = [call EXCEPT !.op = "update_soa", !.target = write_soa(call.target, call.proxy)]
    /\ UNCHANGED session

\* a live collection of one of the types, empty
InitAos ==
    /\ NoSession
    /\ \E target_rna \in AosTypes :
        call = [op |-> "collection", target_rna |-> target_rna, target |-> <<>>, proxy |-> <<>>,
                existing_length |-> 0, logged |-> FALSE, raised |-> FALSE]

NextAos == FitAos \/ UpdateSoa

SpecAos == InitAos /\ [][NextAos]_vars

\* C15: fit_aos on an empty resizable-geometry collection leaves exactly as many elements
\* as the incoming array holds, and the buffer write that follows fills them in order
C15_EmptyGeometryFitted ==
    (call.target_rna \in resize_geometry_types /\ call.existing_length = 0) =>
        /\ call.op = "fit_aos" => Len(call.target) = Len(call.proxy) /\ ~call.logged
        /\ call.op = "update_soa" => call.target = call.proxy

\* three mesh vertices were added to an empty collection and filled
C15_Witness ==
    /\ call.op = "update_soa"
    /\ call.target_rna = "MeshVertices"
    /\ call.existing_length = 0
    /\ Len(call.proxy) = 3
    /\ call.target = call.proxy

\* C16: fit_aos on a resizable-geometry collection whose length is neither zero nor the
\* incoming length signals an error to its caller and leaves the length unchanged
C16_GeometryMismatchSignalled ==
    (/\ call.op = "fit_aos"
     /\ call.target_rna \in resize_geometry_types
     /\ call.existing_length # 0
     /\ call.existing_length # Len(call.proxy)) =>
        /\ call.raised
        /\ Len(call.target) = call.existing_length

\* C17: after fit_aos on a collection of a type it handles (resizable geometry that was
\* empty, grease-pencil stroke points, spline bezier points) the collection has the
\* incoming length, whether that is more or less than before
C17_LengthFitted ==
    (/\ call.op = "fit_aos"
     /\ \/ call.target_rna \in resize_geometry_types /\ call.existing_length = 0
        \/ call.target_rna \in {"GPencilStrokePoints", "SplineBezierPoints"}) =>
        Len(call.target) = Len(call.proxy)

----------------------------------------------------------------------------
(* The conflict rule of rename_datablocks *)

\* the renames returned for a uuid
OutboundFor(uuid) ==
    SelectSeq(call.rename_changeset_to_send, LAMBDA rename : rename[1] = uuid)

\* the batch received is made of items whose uuid has a proxy
AllWithProxy == \A i \in 1..Len(call.items) : call.items[i][1] \in DOMAIN call.before.proxies

NamedUnlessTaken(store, uuid, name) ==
    \/ store[uuid].name = name
    \/ \E other \in (DOMAIN store) \ {uuid} :
        /\ IsLive(store, other)
        /\ collection_name(other) = collection_name(uuid)
        /\ store[other].name = name

----------------------------------------------------------------------------
(* The notifications that update() drops *)

\* a notified datablock that update() drops: of an untracked type, or without proxy
\* (embedded or not) when the loop reaches it
Dropped(p, d) ==
    \/ TypeOf(d) \notin safe_depsgraph_updates
    \/ mixer_uuid(d) \notin DOMAIN state[p].proxies

\* C18: an update() that returns has emitted no update and has touched no proxy for a
\* notified datablock of an untracked type or without proxy, embedded or not, and has
\* diffed every other notified datablock that it can diff
C18_DroppedNotifications ==
    (call.op = "update" /\ changeset.returned) =>
        /\ \A d \in call.all_updates :
            Dropped(call.peer, d) =>
                /\ d \notin call.diffed
                /\ mixer_uuid(d) \notin Updated(changeset)
                /\ mixer_uuid(d) \notin DOMAIN state[call.peer].proxies
        /\ \A d \in call.all_updates :
            (~Dropped(call.peer, d) /\ Diffable(call.peer, d)) => d \in call.diffed

\* a WindowManager was notified along with a Mesh, which was diffed
C18_WitnessUntracked ==
    /\ call.op = "update"
    /\ changeset.returned
    /\ call.all_updates = {"w1", "m1"}
    /\ call.diffed = {"m1"}
    /\ Updated(changeset) = {"m1"}


----------------------------------------------------------------------------
(* The order of changeset.updates *)

\* the type of the datablock that the delta at a position of changeset.updates is about
UpdatedType(i) == TypeOf(changeset.updates[i].mixer_uuid)

\* C19: in changeset.updates no delta of a Mesh, and no delta of another type, comes before
\* a delta of a Key, and no delta of a type other than Key and Mesh comes before a delta of
\* a Mesh, whatever the order of iteration and the origin of the notification
C19_KeyThenMeshThenOthers ==
    call.op = "update" =>
        \A i, j \in 1..Len(changeset.updates) :
            i < j =>
                /\ UpdatedType(j) = "Key" => UpdatedType(i) = "Key"
                /\ UpdatedType(j) = "Mesh" => UpdatedType(i) \in {"Key", "Mesh"}

\* the delta of a shape key taken from the delayed queue comes before the delta of a Mesh
\* notified by the depsgraph
C19_Witness ==
    /\ call.op = "update"
    /\ call.queue_before = {"k1"}
    /\ call.updates = {"m1"}
    /\ call.process_delayed_updates
    /\ Len(changeset.updates) = 2
    /\ UpdatedType(1) = "Key"
    /\ UpdatedType(2) = "Mesh"


----------------------------------------------------------------------------
(* dispatch_rna: the strategy function selected by the rna type of a collection *)

\* the classes of the rna of the collections, with their method resolution order: the class
\* first, the root "object" last
RnaClasses == {"Base", "Mid", "Leaf", "Other"}
mro(class_) ==
    CASE class_ = "Base" -> <<"Base", "object">>
      [] class_ = "Mid" -> <<"Mid", "Base", "object">>
      [] class_ = "Leaf" -> <<"Leaf", "Mid", "Base", "object">>
      [] class_ = "Other" -> <<"Other", "Base", "object">>
      [] OTHER -> <<class_, "bpy_struct", "object">>

\* the functions that may be registered, and the decorated generic function
Handlers == {"f", "g"}
no_rna_impl == "no_rna_impl"

\* the keys of the registry: a class, or type(None) for the default
NoneType == "NoneType"
RegistryKeys == RnaClasses \cup {"object", NoneType}

\* a walk that looks at the root "object" as well
mro_with_object(class_) == mro(class_)

\* class_.mro()[:-1]
mro_without_object(class_) == SubSeq(mro(class_), 1, Len(mro(class_)) - 1)

\* the loop of dispatch over the classes: the first function found in the registry
RECURSIVE dispatch_walk(_, _)
dispatch_walk(registry, classes) ==
    IF classes = <<>> THEN None
    ELSE IF Head(classes) \in DOMAIN registry THEN registry[Head(classes)]
    ELSE dispatch_walk(registry, Tail(classes))

\* dispatch(class_)
dispatch(registry, class_) ==
    LET func == dispatch_walk(registry, mro_without_object(class_))
    IN IF func # None THEN func
       ELSE IF NoneType \in DOMAIN registry THEN registry[NoneType]
       ELSE no_rna_impl

\* wrapper(bpy_prop_collection, ...): the function called; rna is the class of
\* bpy_prop_collection.bl_rna, None when the collection has none
wrapper(registry, rna) == IF rna = None THEN no_rna_impl ELSE dispatch(registry, rna)

\* @strategy.register(class_) and @strategy.register_default() decorate a function
Register ==
    /\ call.op \in {"dispatch_rna", "register", "wrapper"}
    /\ \E key \in RegistryKeys, f \in Handlers :
        call' = [call EXCEPT !.op = "register", !.registry = Put(call.registry, key, f),
                             !.rna = None, !.func = None]
    /\ UNCHANGED session

\* the strategy function is called on a collection
Wrapper ==
    /\ call.op \in {"dispatch_rna", "register", "wrapper"}
    /\ \E rna \in RnaClasses \cup {None} :
        call' = [call EXCEPT !.op = "wrapper", !.rna = rna, !.func = wrapper(call.registry, rna)]
    /\ UNCHANGED session

\* dispatch_rna(no_rna_impl): an empty registry
InitDispatch ==
    /\ NoSession
    /\ call = [op |-> "dispatch_rna", registry |-> EmptyDict, rna |-> None, func |-> None]

NextDispatch == Register \/ Wrapper

SpecDispatch == InitDispatch /\ [][NextDispatch]_vars

\* the classes of the ancestor chain of C, the root excepted, that have a handler
RegisteredAncestors(C) ==
    {i \in 1..(Len(mro(C)) - 1) : mro(C)[i] \in DOMAIN call.registry}

\* C20: for a collection whose rna type is C the function called is the handler of the
\* nearest registered class of the ancestor chain of C (C first, "object" left out); when
\* there is none, the registered default if there is one, else the decorated generic
\* function; for a collection without bl_rna, the decorated generic function
C20_NearestAncestorHandler ==
    call.op = "wrapper" =>
        IF call.rna = None THEN call.func = "no_rna_impl"
        ELSE IF RegisteredAncestors(call.rna) # {}
        THEN \E i \in RegisteredAncestors(call.rna) :
                /\ \A j \in RegisteredAncestors(call.rna) : i <= j
                /\ call.func = call.registry[mro(call.rna)[i]]
        ELSE IF "NoneType" \in DOMAIN call.registry
        THEN call.func = call.registry["NoneType"]
        ELSE call.func = "no_rna_impl"

\* Leaf has no handler, Mid has one, Base and the default have another: Mid's is called
C20_Witness ==
    /\ call.op = "wrapper"
    /\ call.rna = "Leaf"
    /\ DOMAIN call.registry = {"Mid", "Base", "NoneType"}
    /\ call.registry["Mid"] = "f"
    /\ call.registry["Base"] = "g"
    /\ call.registry["NoneType"] = "g"
    /\ call.func = "f"


----------------------------------------------------------------------------
(* diff_must_replace: whether a difference forces the replacement of the collection *)

MaxItems == 2

\* an item of a live collection, or the proxy of one, by the attributes that the
\* implementations of diff_must_replace read
Item == [name |-> "a", index |-> 0, lock_weight |-> FALSE, relative_key |-> "a",
         material |-> "mat", link |-> "OBJECT"]

\* the collections compared: by the class of their bl_rna (None for Object.material_slots,
\* which has no bl_rna) and the property that holds them
ReplaceKinds ==
    {[rna |-> "CurveSplines", property |-> "splines"],
     [rna |-> "VertexGroups", property |-> "vertex_groups"],
     [rna |-> "GreasePencilLayers", property |-> "layers"],
     [rna |-> "bpy_prop_collection", property |-> "key_blocks"],
     [rna |-> None, property |-> "material_slots"]}

\* the items that a collection of a kind may hold: they differ in the attributes of the kind
ItemsOf(kind) ==
    CASE kind.property = "vertex_groups" ->
            {Item, [Item EXCEPT !.name = "b"], [Item EXCEPT !.index = 1],
             [Item EXCEPT !.lock_weight = TRUE]}
      [] kind.property = "key_blocks" ->
            {Item, [Item EXCEPT !.name = "b"], [Item EXCEPT !.relative_key = "b"]}
      [] kind.property = "material_slots" ->
            {Item, [Item EXCEPT !.material = None], [Item EXCEPT !.material = "mat2"],
             [Item EXCEPT !.link = "DATA"]}
      [] OTHER -> {Item, [Item EXCEPT !.name = "b"]}

ItemSequences(kind) == UNION {[1..n -> ItemsOf(kind)] : n \in 0..MaxItems}

\* any(differs(bl_item, proxy) for bl_item, proxy in zip(collection, sequence)): zip stops at
\* the end of the shorter one; differs[i] tells whether the items at position i differ
any_zip(collection, sequence, differs) ==
    \E i \in 1..(IF Len(collection) < Len(sequence) THEN Len(collection) ELSE Len(sequence)) :
        differs[i]

\* the decorated generic function diff_must_replace, which tells the collection by its
\* property
diff_must_replace_generic(collection, sequence, collection_property) ==
    IF collection_property = "material_slots"
    THEN \/ Len(collection) # Len(sequence)
         \/ any_zip(collection, sequence,
                [i \in 1..MaxItems + 1 |->
                    i \in DOMAIN collection /\ i \in DOMAIN sequence /\
                    (\/ (collection[i].material = None) # (sequence[i].material = None)
                     \/ collection[i].material # None /\ collection[i].material # sequence[i].material
                     \/ collection[i].link # sequence[i].link)])
    ELSE IF collection_property = "key_blocks"
    THEN \/ Len(collection) # Len(sequence)
         \/ any_zip(collection, sequence,
                [i \in 1..MaxItems + 1 |->
                    i \in DOMAIN collection /\ i \in DOMAIN sequence /\
                    (\/ collection[i].name # sequence[i].name
                     \/ collection[i].relative_key # sequence[i].relative_key)])
    ELSE FALSE

\* _diff_must_replace_vertex_groups
diff_must_replace_vertex_groups(collection, sequence) ==
    \/ any_zip(collection, sequence,
            [i \in 1..MaxItems + 1 |-> i \in DOMAIN collection /\ i \in DOMAIN sequence /\
                                       collection[i].name # sequence[i].name])
    \/ any_zip(collection, sequence,
            [i \in 1..MaxItems + 1 |-> i \in DOMAIN collection /\ i \in DOMAIN sequence /\
                                       collection[i].index # sequence[i].index])
    \/ any_zip(collection, sequence,
            [i \in 1..MaxItems + 1 |-> i \in DOMAIN collection /\ i \in DOMAIN sequence /\
                                       collection[i].lock_weight # sequence[i].lock_weight])

\* the registry of diff_must_replace: the functions registered for a class
diff_must_replace_registry ==
    [class_ \in {"CurveSplines", "VertexGroups", "GreasePencilLayers"} |-> class_]

\* _diff_must_replace_always
diff_must_replace_always(collection, sequence) == TRUE

\* diff_must_replace(collection, sequence, collection_property)
diff_must_replace(rna, collection, sequence, collection_property) ==
    LET func == wrapper(diff_must_replace_registry, rna)
    IN  IF func = "CurveSplines" THEN diff_must_replace_always(collection, sequence)
        ELSE IF func = "VertexGroups" THEN diff_must_replace_vertex_groups(collection, sequence)
        ELSE IF func = "GreasePencilLayers"
        THEN any_zip(collection, sequence,
                [i \in 1..MaxItems + 1 |-> i \in DOMAIN collection /\ i \in DOMAIN sequence /\
                                           collection[i].name # sequence[i].name])
        ELSE diff_must_replace_generic(collection, sequence, collection_property)

\* diff compares a live collection with the proxy sequence
DiffMustReplace ==
    /\ call.op = "collection"
    /\ call' = [call EXCEPT !.op = "diff_must_replace",
                    !.result = diff_must_replace(call.kind.rna, call.collection, call.sequence,
                                                 call.kind.property)]
    /\ UNCHANGED session

\* the live collection is edited: an item is appended or the last one is removed
EditCollection ==
    /\ call.op \in {"collection", "diff_must_replace"}
    /\ \/ \E item \in ItemsOf(call.kind) :
            /\ Len(call.collection) < MaxItems
            /\ call' = [call EXCEPT !.op = "collection", !.result = FALSE,
                                    !.collection = Append(@, item)]
       \/ /\ call.collection # <<>>
          /\ call' = [call EXCEPT !.op = "collection", !.result = FALSE,
                                  !.collection = SubSeq(@, 1, Len(@) - 1)]
    /\ UNCHANGED session

\* a proxy sequence, loaded from a collection that has since been edited or not
InitReplace ==
    /\ NoSession
    /\ \E kind \in ReplaceKinds :
        \E sequence \in ItemSequences(kind) :
            call = [op |-> "collection", kind |-> kind, collection |-> sequence,
                    sequence |-> sequence, result |-> FALSE]

NextReplace == DiffMustReplace \/ EditCollection

SpecReplace == InitReplace /\ [][NextReplace]_vars

\* C21: diff_must_replace is true for every spline collection and every proxy sequence, and
\* is true for vertex groups and for shape-key blocks whenever the live collection differs
\* from the proxy sequence
C21_SplinesAlwaysOthersWhenDiffer ==
    call.op = "diff_must_replace" =>
        /\ call.kind.property = "splines" => call.result
        /\ (call.kind.property \in {"vertex_groups", "key_blocks"}
                /\ call.collection # call.sequence) => call.result

\* C30: diff_must_replace for vertex groups is true exactly when the live collection and
\* the proxy sequence differ, in length or in the name, index or lock_weight of an item
C30_VertexGroupsAnyChange ==
    (call.op = "diff_must_replace" /\ call.kind.property = "vertex_groups") =>
        (call.result <=> call.collection # call.sequence)


----------------------------------------------------------------------------
(* clear_from: the index from which a live collection must be rebuilt *)

\* the type tags of the items of a collection and of their proxies
TypeTags == {"x", "y"}
TaggedItems == [type : TypeTags, bl_idname : TypeTags]
TaggedSequences == UNION {[1..n -> TaggedItems] : n \in 0..MaxItems}

\* the classes of the collections passed to clear_from; None: no bl_rna
ClearKinds ==
    {"ObjectModifiers", "ObjectGpencilModifiers", "SequenceModifiers", "Nodes",
     "bpy_prop_collection", None}

\* min(len(sequence), len(collection))
min_len(collection, sequence) ==
    IF Len(sequence) < Len(collection) THEN Len(sequence) ELSE Len(collection)

\* a clear_from that does not look at the items
clear_from_lengths(collection, sequence, tag) == min_len(collection, sequence)

\* _clear_from_name (tag "type") and _clear_from_bl_idname (tag "bl_idname"): the index,
\* counted from 0, of the first pair of zip(sequence, collection) whose tags differ
clear_from_tag(collection, sequence, tag) ==
    LET mismatches == {i \in 1..min_len(collection, sequence) :
                            sequence[i][tag] # collection[i][tag]}
    IN IF mismatches = {} THEN min_len(collection, sequence)
       ELSE (CHOOSE i \in mismatches : \A j \in mismatches : i <= j) - 1

\* the registry of clear_from
clear_from_registry ==
    [class_ \in {"ObjectModifiers", "ObjectGpencilModifiers", "SequenceModifiers", "Nodes"} |->
        IF class_ = "Nodes" THEN "bl_idname" ELSE "type"]

\* clear_from(collection, sequence)
clear_from(rna, collection, sequence) ==
    LET func == wrapper(clear_from_registry, rna)
    IN IF func = no_rna_impl THEN min_len(collection, sequence)
       ELSE clear_from_tag(collection, sequence, func)

\* a proxy sequence is about to be saved into a live collection
ClearFrom ==
    /\ call.op = "collection"
    /\ \E sequence \in TaggedSequences :
        call' = [call EXCEPT !.op = "clear_from", !.sequence = sequence,
                             !.result = clear_from(call.rna, call.collection, sequence)]
    /\ UNCHANGED session

InitClearFrom ==
    /\ NoSession
    /\ \E rna \in ClearKinds, collection \in TaggedSequences :
        call = [op |-> "collection", rna |-> rna, collection |-> collection,
                sequence |-> <<>>, result |-> 0]

NextClearFrom == ClearFrom

SpecClearFrom == InitClearFrom /\ [][NextClearFrom]_vars

\* the tag that tells the type of an item of a collection of this class
TagOf(rna) == IF rna = "Nodes" THEN "bl_idname" ELSE "type"

\* C22: clear_from on modifiers (tag type) and on nodes (tag bl_idname) returns the smallest
\* index at which the tag of the live item differs from the tag of the proxy, or the
\* smaller of the two lengths when there is none; for every collection the result is no
\* larger than either length
C22_FirstTypeMismatch ==
    call.op = "clear_from" =>
        /\ call.result >= 0
        /\ call.result <= Len(call.collection)
        /\ call.result <= Len(call.sequence)
        /\ call.rna \in {"ObjectModifiers", "ObjectGpencilModifiers", "SequenceModifiers", "Nodes"} =>
            /\ \A i \in 1..call.result :
                    call.sequence[i][TagOf(call.rna)] = call.collection[i][TagOf(call.rna)]
            /\ \/ call.result = Len(call.collection)
               \/ call.result = Len(call.sequence)
               \/ call.sequence[call.result + 1][TagOf(call.rna)]
                        # call.collection[call.result + 1][TagOf(call.rna)]

\* two nodes against two proxies: the first pair agrees in bl_idname (and not in type), the
\* second pair differs in bl_idname
C22_Witness ==
    /\ call.op = "clear_from"
    /\ call.rna = "Nodes"
    /\ Len(call.collection) = 2
    /\ Len(call.sequence) = 2
    /\ call.collection[1].type # call.sequence[1].type
    /\ call.collection[1].bl_idname = call.sequence[1].bl_idname
    /\ call.collection[2].bl_idname # call.sequence[2].bl_idname
    /\ call.result = 1


----------------------------------------------------------------------------
(* truncate_collection: a live collection shrunk before items are saved into it *)

\* the classes of the collections passed to truncate_collection: Nodes and IDMaterials have
\* a function of their own, ObjectModifiers gets the registered default, and a collection
\* without bl_rna (None) gets the decorated generic function
TruncateKinds == {"Nodes", "IDMaterials", "ObjectModifiers", None}

\* the sizes asked for
TruncateSizes == (0 - 1)..(MaxItems + 1)

\* max(size, 0)
max_size(size) == IF size > 0 THEN size ELSE 0

\* while len(collection) > max(size, 0): the last item is removed (or popped)
RECURSIVE truncate_loop(_, _)
truncate_loop(collection, size) ==
    IF Len(collection) > max_size(size)
    THEN truncate_loop(SubSeq(collection, 1, Len(collection) - 1), size)
    ELSE collection

\* the registry of truncate_collection, with its registered default
truncate_registry ==
    [class_ \in {"Nodes", "IDMaterials", NoneType} |->
        CASE class_ = "Nodes" -> "_truncate_collection_clear"
          [] class_ = "IDMaterials" -> "_truncate_collection_pop"
          [] OTHER -> "_truncate_collection_remove"]

\* truncate_collection(collection, size). rejected: collection.remove raises, which
\* _truncate_collection_remove catches and logs, leaving its loop
truncate_collection(rna, collection, size, rejected) ==
    LET func == wrapper(truncate_registry, rna)
    IN  IF func = "_truncate_collection_clear" THEN <<>>
        ELSE IF func = "_truncate_collection_pop" THEN truncate_loop(collection, size)
        ELSE IF func = "_truncate_collection_remove"
        THEN IF rejected THEN collection ELSE truncate_loop(collection, size)
        ELSE collection

\* a collection is truncated; the live store accepts or rejects the removal of an item
TruncateCollection ==
    /\ call.op = "collection"
    /\ \E size \in TruncateSizes, rejected \in BOOLEAN :
        /\ rejected => Len(call.collection) > max_size(size)
        /\ call' = [call EXCEPT !.op = "truncate_collection", !.size = size,
                        !.rejected = rejected,
                        !.collection = truncate_collection(call.rna, call.collection, size, rejected)]
    /\ UNCHANGED session

InitTruncate ==
    /\ NoSession
    /\ \E rna \in TruncateKinds, collection \in TaggedSequences :
        call = [op |-> "collection", rna |-> rna, collection |-> collection,
                before |-> collection, size |-> 0, rejected |-> FALSE]

NextTruncate == TruncateCollection

SpecTruncate == InitTruncate /\ [][NextTruncate]_vars

\* C23: after truncate_collection(collection, size) the collection holds at most
\* max(size, 0) items; the remove and pop strategies keep the first items, in their order;
\* the strategy of Nodes clears the collection
C23_TruncatedToSize ==
    call.op = "truncate_collection" =>
        /\ Len(call.collection) <= (IF call.size > 0 THEN call.size ELSE 0)
        /\ call.rna = "Nodes" => call.collection = <<>>
        /\ call.rna \in {"IDMaterials", "ObjectModifiers"} =>
                \A i \in 1..Len(call.collection) : call.collection[i] = call.before[i]


----------------------------------------------------------------------------
(* The objects that hold the state of a session: which ones a session owns, which ones  *)
(* clear() empties. heap maps the address of a container to the uuids that it holds.    *)

Sessions == {1, 2}

\* the fields of ProxyState, and the containers of a BpyDataProxy
ProxyStateFields == {"proxies", "datablocks", "objects", "unresolved_refs"}
SessionFields == ProxyStateFields \cup {"_delayed_updates"}

\* what a container may hold
TrackedUuids == {"u1"}

\* the address of the UnresolvedRefs() evaluated once, in the body of class ProxyState, as
\* the default value of the field
class_default_unresolved_refs == <<0, "unresolved_refs">>

\* ProxyState(): proxies, datablocks and objects come from a default_factory, a new
\* container for each instance; unresolved_refs is the default value of the class
ProxyState(p) ==
    [f \in ProxyStateFields |->
        IF f = "unresolved_refs" THEN class_default_unresolved_refs ELSE <<p, f>>]

\* BpyDataProxy.clear(): state.proxies.clear(), state.datablocks.clear()
clear(self, heap) ==
    [a \in DOMAIN heap |->
        IF a \in {self["proxies"], self["datablocks"]} THEN {} ELSE heap[a]]

\* BpyDataProxy(): a ProxyState and a set of delayed updates
NewSession ==
    /\ call.op \in {"module", "BpyDataProxy", "track", "clear"}
    /\ \E p \in Sessions \ DOMAIN call.sessions :
        \E created \in {[f \in SessionFields |->
                            IF f = "_delayed_updates" THEN <<p, f>> ELSE ProxyState(p)[f]]} :
            call' = [op |-> "BpyDataProxy", session |-> p,
                     sessions |-> [q \in (DOMAIN call.sessions) \cup {p} |->
                                        IF q = p THEN created ELSE call.sessions[q]],
                     heap |-> [a \in (DOMAIN call.heap) \cup {created[f] : f \in SessionFields} |->
                                        IF a \in DOMAIN call.heap THEN call.heap[a] ELSE {}],
                     before |-> call.heap]
    /\ UNCHANGED session

\* an operation of a session records a uuid in one of its containers: a proxy and its
\* datablock registered, an Object indexed by its data, a reference left unresolved, a
\* delayed update appended
Track ==
    /\ call.op \in {"BpyDataProxy", "track", "clear"}
    /\ \E p \in DOMAIN call.sessions, f \in SessionFields, uuid \in TrackedUuids :
        /\ uuid \notin call.heap[call.sessions[p][f]]
        /\ call' = [call EXCEPT !.op = "track", !.session = p, !.before = call.heap,
                                !.heap[call.sessions[p][f]] = @ \cup {uuid}]
    /\ UNCHANGED session

\* the session disconnects
Clear ==
    /\ call.op \in {"BpyDataProxy", "track"}
    /\ \E p \in DOMAIN call.sessions :
        call' = [call EXCEPT !.op = "clear", !.session = p, !.before = call.heap,
                             !.heap = clear(call.sessions[p], call.heap)]
    /\ UNCHANGED session

\* the module is imported: the class ProxyState is defined, no session exists
InitSessions ==
    /\ NoSession
    /\ call = [op |-> "module", session |-> 0, sessions |-> [q \in {} |-> 0],
               heap |-> [a \in {class_default_unresolved_refs} |-> {}],
               before |-> [a \in {class_default_unresolved_refs} |-> {}]]

NextSessions == NewSession \/ Track \/ Clear

SpecSessions == InitSessions /\ [][NextSessions]_vars

\* C24: after clear() every container of the session is empty: proxies, datablocks,
\* objects, unresolved_refs and the delayed updates
C24_ClearEmptiesSession ==
    call.op = "clear" =>
        \A f \in {"proxies", "datablocks", "objects", "unresolved_refs", "_delayed_updates"} :
            call.heap[call.sessions[call.session][f]] = {}

\* C25: the components of the ProxyState of two sessions are distinct objects, and an
\* operation of one session leaves what the components of the other session hold
C25_SessionsShareNothing ==
    \A p, q \in DOMAIN call.sessions :
        p # q =>
            \A f \in {"proxies", "datablocks", "objects", "unresolved_refs"} :
                /\ \A g \in {"proxies", "datablocks", "objects", "unresolved_refs"} :
                        call.sessions[p][f] # call.sessions[q][g]
                /\ (call.op \in {"track", "clear"} /\ call.session = p) =>
                        call.heap[call.sessions[q][f]] = call.before[call.sessions[q][f]]


----------------------------------------------------------------------------
(* The receiver of creation and removal commands: the maps of ProxyState *)

\* the creation commands that may be received for a datablock: its reference names a
\* datablock that the receiver may not hold yet
IncomingCreations(d) ==
    {load(d, [name |-> DefaultName, attr |-> 0, ref |-> ref]) : ref \in {None} \cup RefTargets(d)}

\* a creation command is received for a datablock that the receiver does not hold
ReceiveCreation ==
    /\ \E d \in cast :
        /\ bpy_data[1][d].status = "never"
        /\ collection_name(d) # None
        /\ \E incoming_proxy \in IncomingCreations(d) :
            \E r \in {create_datablock([state |-> state[1], store |-> bpy_data[1]], incoming_proxy)} :
                /\ state' = [state EXCEPT ![1] = r.state]
                /\ bpy_data' = [bpy_data EXCEPT ![1] = r.store]
                /\ call' = [op |-> "create_datablock", uuid |-> mixer_uuid(d), before |-> state[1]]
    /\ UNCHANGED <<delayed, changeset, cast, edits, cycles, network>>

\* a removal command is received for a uuid that has a proxy; reading a datablock that the
\* live store has removed raises or not
ReceiveRemoval ==
    /\ \E uuid \in DOMAIN state[1].proxies, raises \in BOOLEAN :
        /\ raises => ~IsLive(bpy_data[1], state[1].datablocks[uuid])
        /\ \E r \in {remove_datablock([state |-> state[1], store |-> bpy_data[1]], uuid, raises)} :
            /\ state' = [state EXCEPT ![1] = r.state]
            /\ bpy_data' = [bpy_data EXCEPT ![1] = r.store]
            /\ call' = [op |-> "remove_datablock", uuid |-> uuid, before |-> state[1]]
    /\ UNCHANGED <<delayed, changeset, cast, edits, cycles, network>>

\* a receiver that holds nothing
InitCommands ==
    /\ cast \in Casts
    /\ bpy_data = [p \in Peers |-> EmptyStore(cast)]
    /\ state = [p \in Peers |-> EmptyState]
    /\ delayed = [p \in Peers |-> {}]
    /\ changeset = NoChangeset
    /\ call = [op |-> "none", uuid |-> None, before |-> EmptyState]
    /\ edits = 0
    /\ cycles = 0
    /\ network = {}

\* a removal command is received for a uuid that has no proxy
ReceiveUnknownRemoval ==
    /\ \E uuid \in cast \ DOMAIN state[1].proxies :
        \E r \in {remove_datablock([state |-> state[1], store |-> bpy_data[1]], uuid, FALSE)} :
            /\ state' = [state EXCEPT ![1] = r.state]
            /\ bpy_data' = [bpy_data EXCEPT ![1] = r.store]
            /\ call' = [op |-> "remove_unknown", uuid |-> uuid, before |-> state[1],
                        store_before |-> bpy_data[1]]
    /\ UNCHANGED <<delayed, changeset, cast, edits, cycles, network>>

\* a creation command is received for a proxy whose collection_name is no bucket of bpy.data
ReceiveUnknownCreation ==
    /\ \E d \in cast :
        /\ collection_name(d) = None
        /\ \E incoming_proxy \in IncomingCreations(d) :
            \E r \in {create_datablock([state |-> state[1], store |-> bpy_data[1]], incoming_proxy)} :
                /\ state' = [state EXCEPT ![1] = r.state]
                /\ bpy_data' = [bpy_data EXCEPT ![1] = r.store]
                /\ call' = [op |-> "create_unknown", uuid |-> mixer_uuid(d), before |-> state[1],
                            store_before |-> bpy_data[1]]
    /\ UNCHANGED <<delayed, changeset, cast, edits, cycles, network>>

\* an update command is received for a delta whose collection_name is no bucket of bpy.data
ReceiveUnknownUpdate ==
    /\ \E d \in cast, attr \in {0, 1} :
        /\ collection_name(d) = None
        /\ \E update_ \in {diff(load(d, [name |-> DefaultName, attr |-> 1 - attr, ref |-> None]),
                                 [name |-> DefaultName, attr |-> attr, ref |-> None])} :
            \E r \in {update_datablock([state |-> state[1], store |-> bpy_data[1]], update_)} :
                /\ state' = [state EXCEPT ![1] = r.state]
                /\ bpy_data' = [bpy_data EXCEPT ![1] = r.store]
                /\ call' = [op |-> "update_unknown", uuid |-> mixer_uuid(d), before |-> state[1],
                            store_before |-> bpy_data[1]]
    /\ UNCHANGED <<delayed, changeset, cast, edits, cycles, network>>

NextCommands ==
    \/ ReceiveCreation
    \/ ReceiveRemoval
    \/ ReceiveUnknownRemoval
    \/ ReceiveUnknownCreation
    \/ ReceiveUnknownUpdate
    \/ AppendDelayedUpdates(1)

SpecCommands == InitCommands /\ [][NextCommands]_vars

\* C26: after any creations and removals, an Object listed under a data uuid in the reverse
\* index has a proxy and has this datablock as its data, and the index has no key for a
\* datablock that was removed
C26_ReverseIndexConsistent ==
    \A d \in DOMAIN state[1].objects :
        /\ bpy_data[1][d].status # "removed"
        /\ \A o \in state[1].objects[d] :
            /\ o \in DOMAIN state[1].proxies
            /\ bpy_data[1][o].ref = d

\* an Object indexed under its data has been removed: the index keeps the key of the live
\* data with an empty set
C26_Witness ==
    /\ call.op = "remove_datablock"
    /\ call.uuid = "o1"
    /\ "m1" \in DOMAIN call.before.objects
    /\ "o1" \in call.before.objects["m1"]
    /\ "o1" \notin DOMAIN state[1].proxies
    /\ "m1" \in DOMAIN state[1].objects
    /\ state[1].objects["m1"] = {}

\* C27: remove_datablock for a uuid that has a proxy leaves the uuid in neither proxies nor
\* datablocks, and the two maps always have the same keys
C27_RemovedFromBothMaps ==
    /\ DOMAIN state[1].proxies = DOMAIN state[1].datablocks
    /\ call.op = "remove_datablock" =>
        /\ call.uuid \notin DOMAIN state[1].proxies
        /\ call.uuid \notin DOMAIN state[1].datablocks


----------------------------------------------------------------------------
(* The two passes of rename_datablocks *)

\* the renames asked for that give a datablock its placeholder
is_placeholder_rename(step) == step.name = tmp_name(step.uuid)

\* C28: the renames that rename_datablocks asks for are the placeholder renames of every
\* item of the batch, in batch order, followed by the renames to the final names, in batch
\* order: no final rename comes before the placeholder rename of any item, and distinct
\* uuids have distinct placeholders
C28_TwoPassesInBatchOrder ==
    call.op = "rename_datablocks" =>
        LET n == Len(call.items)
            trace == call.trace
        IN /\ \A k \in 1..Len(trace) :
                ~is_placeholder_rename(trace[k]) =>
                    \A i \in 1..n : \E j \in 1..(k - 1) :
                        trace[j].uuid = call.items[i][1] /\ is_placeholder_rename(trace[j])
           /\ trace # <<>> =>
                /\ Len(trace) = 2 * n
                /\ \A i \in 1..n :
                    /\ trace[i].uuid = call.items[i][1]
                    /\ is_placeholder_rename(trace[i])
                    /\ trace[n + i].uuid = call.items[i][1]
                    /\ trace[n + i].name \in {call.items[i][3], conflict_name(call.items[i][1])}
           /\ \A u1, u2 \in Datablocks : u1 # u2 => tmp_name(u1) # tmp_name(u2)

\* C28 witness: a batch of two items has been renamed in four steps, one of the two to its
\* conflict name
C28_Witness ==
    /\ call.op = "rename_datablocks"
    /\ Len(call.items) = 2
    /\ Len(call.trace) = 4
    /\ call.trace[2].name = tmp_name(call.items[2][1])
    /\ call.trace[3].name = call.items[1][3]
    /\ call.trace[4].name = conflict_name(call.items[2][1])


----------------------------------------------------------------------------
(* The order of the collection deltas in update() *)

\* the scenes sent as an initial transfer: two buckets without creation order, and buckets
\* with one
DeltaCasts == { {"m1", "t1", "c1", "o1"}, {"t1", "m1", "s1", "k1"} }

\* the scenes in which some datablocks of the cast live
PopulatedStores(scene) ==
    {Populate(EmptyStore(scene), SeqOf(live, <<"m1", "t1", "o1", "c1", "k1", "s1">>)) : live \in SUBSET scene}

\* the orders in which diff.collection_deltas may list the buckets of the cast
DeltaOrders(scene) ==
    LET buckets == {collection_name(d) : d \in scene}
    IN {bucketOrder \in [1..Cardinality(buckets) -> buckets] :
            \A i, j \in 1..Cardinality(buckets) : bucketOrder[i] = bucketOrder[j] => i = j}

\* update() on a diff that holds creations and whose collection_deltas list the buckets in
\* any order
UpdateDeltas ==
    /\ cycles < MaxCycles
    /\ \E d \in cast : IsLive(bpy_data[1], d) /\ d \notin DOMAIN state[1].proxies
    /\ \E bucketOrder \in DeltaOrders(cast), order \in {SeqOf(cast, Order1)} :
        \E r \in {update(state[1], delayed[1], bpy_data[1], {}, FALSE, bucketOrder, order, FALSE)} :
            /\ cycles' = cycles + 1
            /\ state' = [state EXCEPT ![1] = r.state]
            /\ delayed' = [delayed EXCEPT ![1] = r.delayed]
            /\ changeset' = r.changeset
            /\ call' = [op |-> "update", peer |-> 1, before |-> state[1],
                        collection_deltas |-> bucketOrder]
    /\ UNCHANGED <<bpy_data, cast, edits, network>>

\* a session that has not loaded its scene yet
InitDeltas ==
    /\ cast \in DeltaCasts
    /\ \E store \in PopulatedStores(cast) : bpy_data = [p \in Peers |-> store]
    /\ state = [p \in Peers |-> EmptyState]
    /\ delayed = [p \in Peers |-> {}]
    /\ changeset = NoChangeset
    /\ call = NoCall
    /\ edits = 0
    /\ cycles = 0
    /\ network = {}

NextDeltas == UserCreate(1) \/ UpdateDeltas

SpecDeltas == InitDeltas /\ [][NextDeltas]_vars

\* the rank that the claim gives to a bucket
bucket_rank(bucket) ==
    CASE bucket = "collections" -> 2
      [] bucket = "scenes" -> 3
      [] bucket = "objects" -> 4
      [] bucket = "shape_keys" -> 5
      [] OTHER -> 1

\* the place of a bucket in diff.collection_deltas
delta_index(deltas, bucket) == CHOOSE i \in 1..Len(deltas) : deltas[i] = bucket

----------------------------------------------------------------------------
(* Commands that name nothing the receiver knows *)

UnknownCommands == {"remove_unknown", "create_unknown", "update_unknown"}

\* C31: a removal for a uuid without proxy, a creation for a proxy whose collection_name is
\* no bucket and an update for a delta whose collection_name is no bucket leave proxies,
\* datablocks, objects, the live store and the delayed queue as they were
C31_UnknownCommandsIgnored ==
    [][(call'.op \in UnknownCommands) =>
            /\ state'[1] = state[1]
            /\ bpy_data'[1] = bpy_data[1]
            /\ delayed'[1] = delayed[1]]_vars

\* C31 witness: a command that names nothing known has reached a receiver that holds
\* proxies and a delayed update
C31_Witness ==
    /\ call.op = "create_unknown"
    /\ DOMAIN state[1].proxies # {}
    /\ delayed[1] # {}


----------------------------------------------------------------------------
(* bpy_data_ctor_objects: the construction of an Object and its data reference *)

\* the proxies that an Object proxy may hold for its data: a reference to the Mesh, a
\* none-pointer, and a proxy of a class that the sender should not have sent
DataProxies ==
    {[class_ |-> "DatablockRefProxy", mixer_uuid |-> "m1"],
     [class_ |-> "NonePtrProxy", mixer_uuid |-> None],
     [class_ |-> "StructProxy", mixer_uuid |-> None]}

\* DatablockRefProxy.target(context): the datablock registered under the uuid of the
\* reference, None while the reference is unresolved
target(data_proxy, self) ==
    IF data_proxy.mixer_uuid \in DOMAIN self.datablocks
    THEN self.datablocks[data_proxy.mixer_uuid]
    ELSE None

\* an Object constructor that always creates an Empty
bpy_data_ctor_objects_as_empty(r, proxy, data_proxy) ==
    [state |-> r.state,
     store |-> new_datablock(r.store, proxy.mixer_uuid, proxy.name, None),
     id |-> proxy.mixer_uuid]

\* bpy_data_ctor_objects(collection_name, proxy, context); r holds the ProxyState and the
\* live store
bpy_data_ctor_objects(r, proxy, data_proxy) ==
    LET data_datablock == IF data_proxy.class_ = "DatablockRefProxy"
                          THEN target(data_proxy, r.state)
                          ELSE None
        object_datablock == proxy.mixer_uuid
    IN [state |-> IF data_datablock # None
                  THEN [r.state EXCEPT !.objects = objects_add(@, mixer_uuid(data_datablock), proxy.mixer_uuid)]
                  ELSE r.state,
        store |-> new_datablock(r.store, object_datablock, proxy.name, data_datablock),
        id |-> object_datablock]

\* a creation command is received for an Object: the Object is constructed and registered
CtorObjects ==
    /\ \E d \in cast, data_proxy \in DataProxies :
        /\ TypeOf(d) = "Object"
        /\ bpy_data[1][d].status = "never"
        /\ \E proxy \in {load(d, [name |-> DefaultName, attr |-> 0, ref |-> data_proxy.mixer_uuid])} :
            \E r \in {bpy_data_ctor_objects([state |-> state[1], store |-> bpy_data[1]], proxy, data_proxy)} :
                /\ state' = [state EXCEPT ![1] = [r.state EXCEPT !.proxies = Put(@, proxy.mixer_uuid, proxy),
                                                                 !.datablocks = Put(@, proxy.mixer_uuid, r.id)]]
                /\ bpy_data' = [bpy_data EXCEPT ![1] = r.store]
                /\ call' = [op |-> "bpy_data_ctor_objects", uuid |-> proxy.mixer_uuid,
                            data_proxy |-> data_proxy, before |-> state[1]]
    /\ UNCHANGED <<delayed, changeset, cast, edits, cycles, network>>

\* the creation of a datablock that is not an Object
CreateData ==
    /\ ReceiveCreation
    /\ TypeOf(call'.uuid) # "Object"

CtorCasts == { {"o1", "o2", "m1"}, {"o1", "m1", "k1"} }

InitCtorObjects ==
    /\ cast \in CtorCasts
    /\ bpy_data = [p \in Peers |-> EmptyStore(cast)]
    /\ state = [p \in Peers |-> EmptyState]
    /\ delayed = [p \in Peers |-> {}]
    /\ changeset = NoChangeset
    /\ call = [op |-> "none", uuid |-> None, before |-> EmptyState]
    /\ edits = 0
    /\ cycles = 0
    /\ network = {}

NextCtorObjects == CtorObjects \/ CreateData \/ ReceiveRemoval

SpecCtorObjects == InitCtorObjects /\ [][NextCtorObjects]_vars

\* C32: when the data reference of the Object resolves to a datablock d, the Object is
\* created with d as its data and its uuid is added to objects[d]; when the data proxy is a
\* none-pointer, an unresolved reference or of another class, the Object is created without
\* data and the reverse index is unchanged
C32_ObjectDataResolvedOrEmpty ==
    call.op = "bpy_data_ctor_objects" =>
        LET resolves == /\ call.data_proxy.class_ = "DatablockRefProxy"
                        /\ call.data_proxy.mixer_uuid \in DOMAIN call.before.datablocks
            d == call.data_proxy.mixer_uuid
        IN /\ IsLive(bpy_data[1], call.uuid)
           /\ resolves =>
                /\ bpy_data[1][call.uuid].ref = d
                /\ d \in DOMAIN state[1].objects
                /\ state[1].objects[d] =
                        (IF d \in DOMAIN call.before.objects THEN call.before.objects[d] ELSE {})
                            \cup {call.uuid}
                /\ \A x \in DOMAIN call.before.objects :
                        x # d => x \in DOMAIN state[1].objects /\ state[1].objects[x] = call.before.objects[x]
           /\ ~resolves =>
                /\ bpy_data[1][call.uuid].ref = None
                /\ state[1].objects = call.before.objects

\* C32 witness: a second Object has been created with the Mesh that the first one uses
C32_Witness ==
    /\ call.op = "bpy_data_ctor_objects"
    /\ call.data_proxy.class_ = "DatablockRefProxy"
    /\ "m1" \in DOMAIN state[1].objects
    /\ state[1].objects["m1"] = {"o1", "o2"}


----------------------------------------------------------------------------
(* The end of the rename conflicts *)

\* three peers that share two Objects
InitPeersFair == InitPeers /\ cast = {"o1", "o2"}

\* weak fairness of the delivery: PeerReceive is enabled exactly when a command is in flight
\* (every message is addressed to a peer and its reception takes it out of the network)
DeliveryIsFair ==
    []<>(network = {}) \/ []<><<\E p \in Peers : PeerReceive(p)>>_vars

\* weak fairness of the cycle: PeerUpdate is enabled exactly when a peer carries a name that
\* its proxies do not know (update() then writes the name into the proxy)
CycleIsFair ==
    []<>(\A p \in Peers : Unsent(p) = {}) \/ []<><<\E p \in Peers : PeerUpdate(p)>>_vars

\* the peers run their cycle and the transport delivers what is in flight
SpecPeersFair ==
    /\ InitPeersFair
    /\ [][NextPeers]_vars
    /\ CycleIsFair
    /\ DeliveryIsFair

\* the peer to which m is addressed already carries the new name of every item of m
AlreadyNamed(m) ==
    \A i \in 1..Len(m.items) :
        /\ m.items[i][1] \in DOMAIN state[m.to].proxies
        /\ bpy_data[m.to][state[m.to].datablocks[m.items[i][1]]].name = m.items[i][3]

\* C33: a peer that receives a rename whose new name it already carries sends nothing, and
\* once the users have renamed, the rename commands in flight are all delivered and no peer
\* sends another one
C33_RenameConflictsQuiesce ==
    /\ [][\A m \in network : (m \notin network' /\ AlreadyNamed(m)) => network' \subseteq network]_vars
    /\ <>[](network = {})

\* C33 witness: a peer that carries the conflict name has a rename to this name in flight
C33_Witness ==
    \E m \in network :
        /\ AlreadyNamed(m)
        /\ \E i \in 1..Len(m.items) : m.items[i][3] = conflict_name(m.items[i][1])


----------------------------------------------------------------------------
(* The caller's updates set *)

\* C34: after update() with process_delayed_updates true the set that the caller passed
\* holds what it held and every datablock of the delayed queue; with
\* process_delayed_updates false the caller's set and the delayed queue are what they were
C34_CallerSetMergedInPlace ==
    call.op = "update" =>
        /\ call.updates \subseteq call.all_updates
        /\ call.process_delayed_updates =>
                /\ call.queue_before \subseteq call.all_updates
                /\ call.all_updates \subseteq call.updates \cup call.queue_before
        /\ ~call.process_delayed_updates =>
                /\ call.all_updates \subseteq call.updates
                /\ delayed[call.peer] = call.queue_before

\* C34 witness: a flush has put into the caller's set a queued datablock that it did not hold
C34_Witness ==
    /\ call.op = "update"
    /\ call.process_delayed_updates
    /\ call.queue_before \ call.updates # {}
    /\ call.queue_before \subseteq call.all_updates


----------------------------------------------------------------------------
(* One RecursionGuard for every datablock visited with a Context *)

\* the visit of the next datablock pushes on the guard that the previous visit left as it
\* was, raised or not
GuardPushLater ==
    /\ call.op \in {"push", "pop"}
    /\ Len(call.property_stack) <= MAX_DEPTH + MaxBeyond
    /\ \E r \in {push(call.property_stack,
                      attribute_name(call.graph, Len(call.property_stack) + 1))} :
        call' = [call EXCEPT !.op = "push", !.property_stack = r.property_stack,
                             !.raised = r.raised, !.property_path = r.property_path]
    /\ UNCHANGED session

NextGuardShared == GuardPush \/ GuardPop \/ GuardPushLater

SpecGuardShared == InitGuard /\ [][NextGuardShared]_vars

\* C35: a push leaves its name on the stack also when it raises, so that the first raise
\* leaves 31 names; a push raises exactly when the stack holds 30 names or more before it,
\* that is, after a raise every push raises until pops have brought the depth below 30
C35_RaisedGuardKeepsRaising ==
    [][call'.op = "push" =>
            /\ Len(call'.property_stack) = Len(call.property_stack) + 1
            /\ SubSeq(call'.property_stack, 1, Len(call.property_stack)) = call.property_stack
            /\ call'.raised <=> Len(call.property_stack) >= 30
            /\ (call'.raised /\ Len(call.property_stack) = 30) => Len(call'.property_stack) = 31]_vars

\* C35 witness: a push on a guard that holds the 31 names of a raise has raised again
C35_Witness ==
    /\ call.op = "push"
    /\ call.raised
    /\ Len(call.property_stack) = 32


----------------------------------------------------------------------------
(* VisitState.datablock_proxy and the context manager CurrentDatablockContext *)

MaxNesting == 3

\* the datablocks visited: standalone ones at the top, embedded ones inside a visit
StandaloneDatablocks == {"o1", "m1", "c1", "k1", "s1", "t1"}
EmbeddedDatablocks == {"e1"}

\* VisitState.enter_datablock(proxy, datablock): CurrentDatablockContext.__init__
enter_datablock(proxy, datablock) ==
    [_is_embedded_data |-> is_embedded_data(datablock), _proxy |-> proxy]

\* an __enter__ that takes every datablock for a standalone one
enter_any_datablock(visit_state, self) == [visit_state EXCEPT !.datablock_proxy = self._proxy]

\* CurrentDatablockContext.__enter__
__enter__(visit_state, self) ==
    IF ~self._is_embedded_data
    THEN [visit_state EXCEPT !.datablock_proxy = self._proxy]
    ELSE visit_state

\* CurrentDatablockContext.__exit__(exc_type, exc_value, traceback): the result is not true,
\* so an exception goes on to the enclosing context
__exit__(visit_state, self, exc_type) ==
    IF ~self._is_embedded_data
    THEN [visit_state EXCEPT !.datablock_proxy = None]
    ELSE visit_state

\* "with visit_state.enter_datablock(proxy, datablock):" at the top for a standalone
\* datablock, inside a visit for a datablock embedded in the one visited
EnterDatablock ==
    /\ call.op \in {"VisitState", "enter", "exit"}
    /\ call.exc_type = None
    /\ Len(call.entered) <= MaxNesting
    /\ \E datablock \in IF call.entered = <<>> THEN StandaloneDatablocks ELSE EmbeddedDatablocks :
        \E self \in {enter_datablock(mixer_uuid(datablock), datablock)} :
            call' = [call EXCEPT !.op = "enter",
                                 !.visit_state = __enter__(call.visit_state, self),
                                 !.entered = Append(@, self)]
    /\ UNCHANGED session

\* the end of the innermost with block, reached normally, or by an exception raised in the
\* block or coming from a block inside it
ExitDatablock ==
    /\ call.op \in {"enter", "exit"}
    /\ call.entered # <<>>
    /\ \E exc_type \in {None, "MaxDepthExceeded", "AttributeError"} :
        /\ call.exc_type # None => exc_type = call.exc_type
        /\ \E self \in {call.entered[Len(call.entered)]} :
            call' = [call EXCEPT !.op = "exit",
                                 !.visit_state = __exit__(call.visit_state, self, exc_type),
                                 !.entered = SubSeq(@, 1, Len(@) - 1),
                                 !.exc_type = IF Len(call.entered) = 1 THEN None ELSE exc_type,
                                 !.left_by = exc_type]
    /\ UNCHANGED session

\* VisitState(): no datablock is visited
InitVisit ==
    /\ NoSession
    /\ call = [op |-> "VisitState", visit_state |-> [datablock_proxy |-> None], entered |-> <<>>,
               exc_type |-> None, left_by |-> None]

NextVisit == EnterDatablock \/ ExitDatablock

SpecVisit == InitVisit /\ [][NextVisit]_vars

\* C36: while a standalone datablock is visited, embedded visits inside it included,
\* datablock_proxy is its proxy; once its visit is left, normally or by an exception,
\* datablock_proxy is None
C36_CurrentDatablockProxy ==
    IF call.entered = <<>>
    THEN call.visit_state.datablock_proxy = None
    ELSE /\ ~call.entered[1]._is_embedded_data
         /\ call.visit_state.datablock_proxy = call.entered[1]._proxy

\* C36 witness: an exception has left the visit of the standalone datablock
C36_Witness ==
    /\ call.op = "exit"
    /\ call.left_by = "MaxDepthExceeded"
    /\ call.entered = <<>>
    /\ call.visit_state.datablock_proxy = None


----------------------------------------------------------------------------
(* blender_client/collection.py: the COLLECTION and ADD_OBJECT_TO_COLLECTION messages *)

\* names are strings of bytes: "c", "cd" for the collections, "o", "p" for the objects
MaxCommands == 1
CollectionNames == {<<99>>, <<99, 100>>}
ObjectNames == {<<111>>, <<112>>}
Offsets == {<<0, 0, 0>>, <<1, 0, 2>>}

\* common.encode_string: the length, then the bytes
encode_string(value) == <<Len(value)>> \o value
\* common.encode_bool: one word, 1 for True
encode_bool(value) == <<IF value THEN 1 ELSE 0>>
\* common.encode_vector3: the three components
encode_vector3(value) == <<value[1], value[2], value[3]>>

\* common.decode_string(data, index): the string and the index that follows it (indexes
\* count from 0)
decode_string(data, index) ==
    LET length == data[index + 1]
    IN <<SubSeq(data, index + 2, index + 1 + length), index + 1 + length>>
decode_bool(data, index) == <<data[index + 1] # 0, index + 1>>
decode_vector3(data, index) == <<SubSeq(data, index + 1, index + 3), index + 3>>

\* a sender that transmits hide_viewport as it is
send_collection_as_hidden(collection) ==
    [type |-> "COLLECTION",
     data |-> encode_string(collection.name_full)
                \o encode_bool(collection.hide_viewport)
                \o encode_vector3(collection.instance_offset),
     id |-> 0]

\* send_collection(client, collection): the command handed to client.add_command
send_collection(collection) ==
    [type |-> "COLLECTION",
     data |-> encode_string(collection.name_full)
                \o encode_bool(~collection.hide_viewport)
                \o encode_vector3(collection.instance_offset),
     id |-> 0]

\* send_add_object_to_collection(client, collection_name, obj_name)
send_add_object_to_collection(name_of_collection, obj_name) ==
    [type |-> "ADD_OBJECT_TO_COLLECTION",
     data |-> encode_string(name_of_collection) \o encode_string(obj_name),
     id |-> 0]

\* bpy.data.collections.new(name): a collection with the default attributes, under the name
\* asked for unless bpy.data holds a collection of this name
collections_new(collections, name) ==
    Append(collections,
           [name_full |-> IF \E i \in 1..Len(collections) : collections[i].name_full = name
                          THEN name \o <<46, 48, 48, 49>>
                          ELSE name,
            hide_viewport |-> FALSE, instance_offset |-> <<0, 0, 0>>, objects |-> {}])

\* a receiver that creates a collection for every message
build_collection_always_new(data, receiver) ==
    LET name_full == decode_string(data, 0)
        visible == decode_bool(data, name_full[2])
        offset == decode_vector3(data, visible[2])
        created == collections_new(receiver.collections, name_full[1])
    IN [receiver EXCEPT
            !.collections = [created EXCEPT ![Len(created)].hide_viewport = ~visible[1],
                                            ![Len(created)].instance_offset = offset[1]],
            !.blender_collections = Put(@, name_full[1], Len(created))]

\* build_collection(data); receiver holds bpy.data.collections (a list, a collection being
\* known by its place in it) and share_data.blender_collections
build_collection(data, receiver) ==
    LET name_full == decode_string(data, 0)
        visible == decode_bool(data, name_full[2])
        hide_viewport == ~visible[1]
        offset == decode_vector3(data, visible[2])
        absent == name_full[1] \notin DOMAIN receiver.blender_collections
        created == IF absent THEN collections_new(receiver.collections, name_full[1])
                   ELSE receiver.collections
        collection == IF absent THEN Len(created) ELSE receiver.blender_collections[name_full[1]]
    IN [receiver EXCEPT
            !.collections = [created EXCEPT ![collection].hide_viewport = hide_viewport,
                                            ![collection].instance_offset = offset[1]],
            !.blender_collections = IF absent THEN Put(@, name_full[1], collection) ELSE @]

\* a receiver that links without looking
build_add_object_to_collection_always(data, receiver) ==
    LET name_of_collection == decode_string(data, 0)
        object_name == decode_string(data, name_of_collection[2])
    IN IF name_of_collection[1] \notin DOMAIN receiver.blender_collections
       THEN [receiver EXCEPT !.raised = "KeyError"]
       ELSE LET collection == receiver.blender_collections[name_of_collection[1]]
            IN IF object_name[1] \notin receiver.blender_objects
               THEN [receiver EXCEPT !.raised = "KeyError"]
               ELSE IF object_name[1] \in receiver.collections[collection].objects
                    THEN [receiver EXCEPT !.raised = "RuntimeError"]
                    ELSE [receiver EXCEPT !.collections[collection].objects = @ \cup {object_name[1]},
                                          !.raised = None]

\* build_add_object_to_collection(data): collection.objects.link raises RuntimeError for an
\* object that the collection holds already
build_add_object_to_collection(data, receiver) ==
    LET name_of_collection == decode_string(data, 0)
        object_name == decode_string(data, name_of_collection[2])
    IN IF name_of_collection[1] \notin DOMAIN receiver.blender_collections
       THEN [receiver EXCEPT !.raised = "KeyError"]
       ELSE LET collection == receiver.blender_collections[name_of_collection[1]]
            IN IF object_name[1] \in receiver.collections[collection].objects
               THEN [receiver EXCEPT !.raised = None]
               ELSE IF object_name[1] \notin receiver.blender_objects
                    THEN [receiver EXCEPT !.raised = "KeyError"]
                    ELSE [receiver EXCEPT !.collections[collection].objects = @ \cup {object_name[1]},
                                          !.raised = None]

\* the collections that a sender may hold
SenderCollections ==
    [name_full : CollectionNames, hide_viewport : BOOLEAN, instance_offset : Offsets]

\* the sender sends a collection: client.add_command appends the command to the queue
SendCollection ==
    /\ Len(call.commands) < MaxCommands
    /\ \E collection \in SenderCollections :
        call' = [call EXCEPT !.op = "send_collection",
                             !.commands = Append(@, send_collection(collection)),
                             !.sent = Append(@, collection)]
    /\ UNCHANGED session

\* the sender links an object to a collection
SendAddObjectToCollection ==
    /\ Len(call.commands) < MaxCommands
    /\ \E name \in CollectionNames, obj_name \in ObjectNames :
        call' = [call EXCEPT !.op = "send_add_object_to_collection",
                             !.commands = Append(@, send_add_object_to_collection(name, obj_name))]
    /\ UNCHANGED session

\* the receiver takes the oldest command, a COLLECTION message
BuildCollection ==
    /\ call.commands # <<>>
    /\ Head(call.commands).type = "COLLECTION"
    /\ call' = [call EXCEPT !.op = "build_collection",
                            !.commands = Tail(@),
                            !.sent = Tail(@),
                            !.receiver = [build_collection(Head(call.commands).data, @)
                                            EXCEPT !.raised = None],
                            !.known = Head(call.sent).name_full \in DOMAIN call.receiver.blender_collections]
    /\ UNCHANGED session

\* the collection that the registry of the receiver gives for a name
registered(receiver, name) == receiver.collections[receiver.blender_collections[name]]

\* the names that an ADD_OBJECT_TO_COLLECTION buffer carries
link_of(data) ==
    LET first == decode_string(data, 0)
    IN [collection |-> first[1], object |-> decode_string(data, first[2])[1]]

\* the receiver takes the oldest command, an ADD_OBJECT_TO_COLLECTION message
BuildAddObjectToCollection ==
    /\ call.commands # <<>>
    /\ Head(call.commands).type = "ADD_OBJECT_TO_COLLECTION"
    /\ call' = [call EXCEPT !.op = "build_add_object_to_collection",
                            !.commands = Tail(@),
                            !.receiver = build_add_object_to_collection(Head(call.commands).data, @),
                            !.known =
                                LET link == link_of(Head(call.commands).data)
                                IN /\ link.collection \in DOMAIN call.receiver.blender_collections
                                   /\ link.object \in registered(call.receiver, link.collection).objects]
    /\ UNCHANGED session

\* the receiver gets the creation of an object, which may link the object to a collection
ObjectCreated ==
    /\ \E obj_name \in ObjectNames \ call.receiver.blender_objects,
          linked \in {0} \cup DOMAIN call.receiver.collections :
        call' = [call EXCEPT !.op = "object_created",
                             !.receiver.blender_objects = @ \cup {obj_name},
                             !.receiver.collections =
                                IF linked = 0 THEN @
                                ELSE [@ EXCEPT ![linked].objects = @ \cup {obj_name}],
                             !.receiver.raised = None,
                             !.known = FALSE]
    /\ UNCHANGED session

\* a receiver without collections or objects, and an empty queue of commands
InitCollections ==
    /\ NoSession
    /\ call = [op |-> "none", commands |-> <<>>, sent |-> <<>>, known |-> FALSE,
               receiver |-> [collections |-> <<>>, blender_collections |-> <<>>,
                             blender_objects |-> {}, raised |-> None]]

NextCollections ==
    \/ SendCollection
    \/ SendAddObjectToCollection
    \/ BuildCollection
    \/ BuildAddObjectToCollection
    \/ ObjectCreated

SpecCollections == InitCollections /\ [][NextCollections]_vars


\* C37: the registry maps every name received to one collection of bpy.data that carries
\* this name, no two names to the same one, and bpy.data holds no collection besides them;
\* a COLLECTION message leaves the collection of its name with the hide_viewport and the
\* instance_offset that it carries, creates no collection for a name already registered, and
\* leaves the other collections as they were
C37_OneCollectionPerName ==
    /\ [](LET receiver == call.receiver
          IN /\ \A name \in DOMAIN receiver.blender_collections :
                    /\ receiver.blender_collections[name] \in DOMAIN receiver.collections
                    /\ registered(receiver, name).name_full = name
             /\ Len(receiver.collections) = Cardinality(DOMAIN receiver.blender_collections))
    /\ [][call'.op = "build_collection" =>
            LET message == Head(call.sent)
            IN /\ registered(call'.receiver, message.name_full).hide_viewport = message.hide_viewport
               /\ registered(call'.receiver, message.name_full).instance_offset = message.instance_offset
               /\ message.name_full \in DOMAIN call.receiver.blender_collections =>
                    Len(call'.receiver.collections) = Len(call.receiver.collections)
               /\ \A name \in DOMAIN call.receiver.blender_collections :
                    name # message.name_full =>
                        registered(call'.receiver, name) = registered(call.receiver, name)]_vars

\* C37 witness: a second message for a name has changed the attributes of its collection
C37_Witness ==
    /\ call.op = "build_collection"
    /\ call.known
    /\ Len(call.receiver.collections) = 1
    /\ call.receiver.collections[1].hide_viewport
    /\ call.receiver.collections[1].instance_offset = <<1, 0, 2>>

\* C38: the receiver that builds the command which send_collection has queued for a
\* collection holds under the same name_full a collection with the same hide_viewport and
\* the same instance_offset, the buffer carrying the negation of hide_viewport; and
\* send_collection queues one command
C38_CollectionRoundTrip ==
    [][/\ call'.op = "build_collection" =>
            LET collection == Head(call.sent)
                data == Head(call.commands).data
                built == registered(call'.receiver, collection.name_full)
            IN /\ decode_bool(data, decode_string(data, 0)[2])[1] = ~collection.hide_viewport
               /\ built.name_full = collection.name_full
               /\ built.hide_viewport = collection.hide_viewport
               /\ built.instance_offset = collection.instance_offset
       /\ call'.op = "send_collection" =>
            /\ Len(call'.commands) = Len(call.commands) + 1
            /\ SubSeq(call'.commands, 1, Len(call.commands)) = call.commands]_vars

\* C38 witness: a hidden collection with an offset has been built from its command
C38_Witness ==
    /\ call.op = "build_collection"
    /\ ~call.known
    /\ \E name \in DOMAIN call.receiver.blender_collections :
        /\ Len(name) = 2
        /\ registered(call.receiver, name).hide_viewport
        /\ registered(call.receiver, name).instance_offset = <<1, 0, 2>>

\* C39: for a collection of the registry and an object that the receiver knows, the link
\* message raises nothing and leaves the object linked to the collection; on a collection
\* that already holds the object, linked by the same message or by the creation of the
\* object, it changes nothing
C39_LinkIdempotent ==
    [][call'.op = "build_add_object_to_collection" =>
            LET link == link_of(Head(call.commands).data)
            IN link.collection \in DOMAIN call.receiver.blender_collections =>
                LET before == registered(call.receiver, link.collection)
                    after == registered(call'.receiver, link.collection)
                IN /\ (link.object \in before.objects \/ link.object \in call.receiver.blender_objects) =>
                        /\ call'.receiver.raised = None
                        /\ after.objects = before.objects \cup {link.object}
                   /\ link.object \in before.objects =>
                        call'.receiver = [call.receiver EXCEPT !.raised = None]]_vars

\* C39 witness: a link message has reached a collection that already holds the object
C39_Witness ==
    /\ call.op = "build_add_object_to_collection"
    /\ call.known
    /\ call.receiver.raised = None
    /\ \E i \in DOMAIN call.receiver.collections : call.receiver.collections[i].objects # {}

====
